---------------------------- MODULE Spec2Model ----------------------------
(***************************************************************************)
(* A model of json-ai-translation: the change-set extractor                *)
(* (getGitDiffJSON), the key-presence analysis (getMissingKeys,            *)
(* getCommonMissingKeys), the batch orchestration (updateAllLocaleFiles,   *)
(* updateLocaleFile, translateJSON) and run() of createRunner, for both    *)
(* on-disk layouts, together with the flatten/unflatten codec.             *)
(*                                                                         *)
(* A JavaScript object with string keys is an insertion-ordered mapping:   *)
(* it is modelled as a sequence of entries [k |-> key, v |-> value] with   *)
(* pairwise distinct keys.  A flat mapping is such a sequence whose values *)
(* are strings; LocaleInfo.file is such a sequence whose values are flat   *)
(* mappings.                                                               *)
(***************************************************************************)
EXTENDS Integers, Sequences, FiniteSets, TLC

(***************************************************************************)
(* JavaScript objects                                                      *)
(***************************************************************************)

\* The value of a property that an object does not have.
Undefined == "<undefined>"

\* Object.keys(m)
KeysOf(m) == [i \in 1..Len(m) |-> m[i].k]

\* key in m
HasKey(m, key) == \E i \in 1..Len(m) : m[i].k = key

\* m[key], for a key the object has
At(m, key) == m[CHOOSE i \in 1..Len(m) : m[i].k = key].v

\* m[key] of a flat mapping: undefined when the key is absent
Get(m, key) == IF HasKey(m, key) THEN At(m, key) ELSE Undefined

\* m[key] = value: an existing key keeps its place, a new one is appended
\* (the concatenation makes the result a sequence that is evaluated once)
Put(m, key, value) ==
    IF HasKey(m, key)
    THEN <<>> \o [i \in 1..Len(m) |->
                     IF m[i].k = key THEN [k |-> key, v |-> value] ELSE m[i]]
    ELSE Append(m, [k |-> key, v |-> value])

\* delete m[key]
Delete(m, key) == SelectSeq(m, LAMBDA e : e.k # key)

\* !value, for the values of a flat mapping
Falsy(value) == value = Undefined \/ value = ""

\* The elements of a sequence, as a set.
Range(s) == {s[i] : i \in 1..Len(s)}

\* keys.forEach(key => m[key] = src[key]) started from m
RECURSIVE PutAll(_, _)
PutAll(m, entries) ==
    IF entries = <<>> THEN m
    ELSE PutAll(Put(m, Head(entries).k, Head(entries).v), Tail(entries))

\* keys.forEach(key => delete m[key])
RECURSIVE DeleteAll(_, _)
DeleteAll(m, keys) ==
    IF keys = <<>> THEN m ELSE DeleteAll(Delete(m, Head(keys)), Tail(keys))

(***************************************************************************)
(* util.ts                                                                 *)
(***************************************************************************)

\* A string that is split or joined is the sequence of its characters.  A
\* JSON value is a node: a leaf of type "string", "number", "boolean" or
\* "null" with its text, an "object" with its entries [k |-> key, v |-> node]
\* in insertion order, or an "array" with its elements.
Leaf(type, text) == [type |-> type, text |-> text, kids |-> <<>>]
Object(entries) == [type |-> "object", text |-> "", kids |-> entries]
Array(elements) == [type |-> "array", text |-> "", kids |-> elements]

\* What an assignment to a property of a primitive value throws in a module
\* (strict mode).
TypeError == [type |-> "TypeError", text |-> "", kids |-> <<>>]

\* typeof value === "object" && value !== null
IsObject(value) == value.type \in {"object", "array"}

\* !value, for a leaf
FalsyLeaf(value) ==
    \/ value.type = "null"
    \/ value.type = "string" /\ value.text = ""
    \/ value.type = "number" /\ value.text = "0"
    \/ value.type = "boolean" /\ value.text = "false"

\* The decimal digits; String(i) for an index i below ten.
Digits == <<"0", "1", "2", "3", "4", "5", "6", "7", "8", "9">>
IndexKey(i) == <<Digits[i + 1]>>

\* The own enumerable properties of an object or array, as for...in visits
\* them: an array's indices are its keys.
OwnEntries(value) ==
    IF value.type = "array"
    THEN [i \in 1..Len(value.kids) |-> [k |-> IndexKey(i - 1), v |-> value.kids[i]]]
    ELSE value.kids

\* str starts with sep.
StartsWith(str, sep) ==
    Len(str) >= Len(sep) /\ SubSeq(str, 1, Len(sep)) = sep

\* str.split(sep), for a separator that is not empty
RECURSIVE Split(_, _)
Split(str, sep) ==
    LET hits == {i \in 1..Len(str) : StartsWith(SubSeq(str, i, Len(str)), sep)}
        first == CHOOSE i \in hits : \A j \in hits : i <= j
    IN  IF hits = {} THEN <<str>>
        ELSE <<SubSeq(str, 1, first - 1)>>
                 \o Split(SubSeq(str, first + Len(sep), Len(str)), sep)

\* parts.join(sep)
RECURSIVE Join(_, _)
Join(parts, sep) ==
    IF Len(parts) = 0 THEN <<>>
    ELSE IF Len(parts) = 1 THEN parts[1]
    ELSE parts[1] \o sep \o Join(Tail(parts), sep)

PERIOD_ESC == <<"~", "|", "~">>

\* flattenJSON(jsonObject, parentKey, result): FlattenEntries is its loop
\* over the properties that are left to visit.
RECURSIVE flattenJSON(_, _, _)
RECURSIVE FlattenEntries(_, _, _)
FlattenEntries(entries, parentKey, result) ==
    IF entries = <<>> THEN result
    ELSE LET key == Head(entries).k
             value == Head(entries).v
             escapedKey == Join(Split(key, <<".">>), PERIOD_ESC)
             newKey == IF parentKey # <<>>
                       THEN parentKey \o <<".">> \o escapedKey
                       ELSE escapedKey
         IN  FlattenEntries(Tail(entries), parentKey,
                            IF IsObject(value)
                            THEN flattenJSON(value, newKey, result)
                            ELSE Put(result, newKey, value))

flattenJSON(jsonObject, parentKey, result) ==
    FlattenEntries(OwnEntries(jsonObject), parentKey, result)

\* keys.forEach of unflattenJSON from the segment Head(keys) on, at the
\* object currentLevel: the object with the value assigned, or TypeError
\* when the walk runs into a truthy leaf.
RECURSIVE WalkAndAssign(_, _, _)
WalkAndAssign(currentLevel, keys, value) ==
    LET unescapedKey == Join(Split(Head(keys), PERIOD_ESC), <<".">>)
        found == HasKey(currentLevel.kids, unescapedKey)
        existing == At(currentLevel.kids, unescapedKey)
        nextLevel ==
            IF ~found \/ (~IsObject(existing) /\ FalsyLeaf(existing))
            THEN Object(<<>>) ELSE existing
        below == WalkAndAssign(nextLevel, Tail(keys), value)
    IN  IF Len(keys) = 1
        THEN [currentLevel EXCEPT !.kids = Put(@, unescapedKey, value)]
        ELSE IF ~IsObject(nextLevel) \/ below = TypeError THEN TypeError
        ELSE [currentLevel EXCEPT !.kids = Put(@, unescapedKey, below)]

\* The loop of unflattenJSON over the flat keys that are left.
RECURSIVE UnflattenEntries(_, _)
UnflattenEntries(entries, result) ==
    IF entries = <<>> \/ result = TypeError THEN result
    ELSE UnflattenEntries(Tail(entries),
                          WalkAndAssign(result, Split(Head(entries).k, <<".">>),
                                        Head(entries).v))

\* unflattenJSON(flattened)
unflattenJSON(flattened) == UnflattenEntries(flattened, Object(<<>>))

\* A file as the file system or `git show HEAD:<path>` gives it: absent, or
\* present with the flat mapping of its JSON text.
Absent == [exists |-> FALSE, map |-> <<>>]
File(m) == [exists |-> TRUE, map |-> m]

\* flattenJSONFile(filePath, useGitSource): the HEAD version when asked for
\* (an empty object when git show fails), else the file on disk (an empty
\* object when it does not exist).
flattenJSONFile(onDisk, inHead, useGitSource) ==
    IF useGitSource
    THEN (IF inHead.exists THEN inHead.map ELSE <<>>)
    ELSE (IF onDisk.exists THEN onDisk.map ELSE <<>>)

\* The history is read whether or not everything is to be translated.
previousJson_alwaysRead(inHead, forceTranslateAll) ==
    IF inHead.exists THEN inHead.map ELSE <<>>

\* flattenedPreviousJson of getGitDiffJSON: the HEAD version, unless
\* everything is to be translated or `git show` fails; then an empty object.
previousJson(inHead, forceTranslateAll) ==
    IF ~forceTranslateAll /\ inHead.exists THEN inHead.map ELSE <<>>

\* Only arrays are compared; two scalars never count as equal.
areEqual_arraysOnly(previous, current, key) == FALSE

\* areEqual of getGitDiffJSON, for a key of both mappings.  The values of a
\* flat mapping are scalars, compared with ===.
areEqual(previous, current, key) == Get(previous, key) = Get(current, key)

\* The else branch that collects the deleted keys is missing.
getGitDiffJSON_noDeleted(current, inHead, forceTranslateAll) ==
    LET previous == previousJson(inHead, forceTranslateAll)
        changedKeys ==
            SelectSeq(KeysOf(previous),
                      LAMBDA key : /\ HasKey(current, key)
                                   /\ ~areEqual(previous, current, key))
        forced == IF forceTranslateAll THEN KeysOf(current) ELSE <<>>
        added ==
            IF forceTranslateAll THEN <<>>
            ELSE SelectSeq(KeysOf(current),
                           LAMBDA key : ~HasKey(previous, key))
    IN  [replaced |-> changedKeys \o forced,
         deleted |-> <<>>,
         added |-> added]

\* A failed history lookup leaves the current content as the previous one.
getGitDiffJSON_lookupFailureUnchanged(current, inHead, forceTranslateAll) ==
    LET previous ==
            IF forceTranslateAll THEN <<>>
            ELSE IF inHead.exists THEN inHead.map ELSE current
        changedKeys ==
            SelectSeq(KeysOf(previous),
                      LAMBDA key : /\ HasKey(current, key)
                                   /\ ~areEqual(previous, current, key))
        deleted ==
            SelectSeq(KeysOf(previous), LAMBDA key : ~HasKey(current, key))
        forced == IF forceTranslateAll THEN KeysOf(current) ELSE <<>>
        added ==
            IF forceTranslateAll THEN <<>>
            ELSE SelectSeq(KeysOf(current),
                           LAMBDA key : ~HasKey(previous, key))
    IN  [replaced |-> changedKeys \o forced,
         deleted |-> deleted,
         added |-> added]

\* getGitDiffJSON(filePath, forceTranslateAll) for a file whose current
\* flat mapping is `current` and whose HEAD version is `inHead`.
getGitDiffJSON_keysOfHead(current, inHead, forceTranslateAll) ==
    [replaced |-> IF inHead.exists THEN KeysOf(inHead.map) ELSE <<>>,
     deleted |-> <<>>,
     added |-> SelectSeq(KeysOf(current),
                         LAMBDA key : ~inHead.exists \/ ~HasKey(inHead.map, key))]

getGitDiffJSON(current, inHead, forceTranslateAll) ==
    LET previous == previousJson(inHead, forceTranslateAll)
        changedKeys ==
            SelectSeq(KeysOf(previous),
                      LAMBDA key : /\ HasKey(current, key)
                                   /\ ~areEqual(previous, current, key))
        deleted ==
            SelectSeq(KeysOf(previous), LAMBDA key : ~HasKey(current, key))
        forced == IF forceTranslateAll THEN KeysOf(current) ELSE <<>>
        added ==
            IF forceTranslateAll THEN <<>>
            ELSE SelectSeq(KeysOf(current),
                           LAMBDA key : ~HasKey(previous, key))
    IN  [replaced |-> changedKeys \o forced,
         deleted |-> deleted,
         added |-> added]

\* The first occurrence of every element of s, in order.
RECURSIVE Unique(_, _)
Unique(s, seen) ==
    IF s = <<>> THEN <<>>
    ELSE IF Head(s) \in seen THEN Unique(Tail(s), seen)
    ELSE <<Head(s)>> \o Unique(Tail(s), seen \cup {Head(s)})

\* getUniqueStringArray(array1, array2)
getUniqueStringArray(array1, array2) == Unique(array1 \o array2, {})

RECURSIVE Flatten(_)
Flatten(arrays) ==
    IF arrays = <<>> THEN <<>> ELSE Head(arrays) \o Flatten(Tail(arrays))

\* A string of any one array counts as common.
getCommonStrings_anyArray(arrays) == Unique(Flatten(arrays), {})

\* getCommonStrings(arrays): the strings counted once per array that are in
\* every array, in the order the Map first saw them.
getCommonStrings(arrays) ==
    IF Len(arrays) = 0 THEN <<>>
    ELSE LET stringCount(str) ==
                 Cardinality({i \in 1..Len(arrays) : str \in Range(arrays[i])})
         IN  SelectSeq(Unique(Flatten(arrays), {}),
                       LAMBDA str : stringCount(str) = Len(arrays))

\* chunkArray with a loop that runs once for an empty array too: one
\* bucket at least.
chunkArray_atLeastOne(arr, bucketSize) ==
    LET count == IF Len(arr) = 0 THEN 1
                 ELSE (Len(arr) + bucketSize - 1) \div bucketSize
    IN  [i \in 1..count |->
            SubSeq(arr, (i - 1) * bucketSize + 1,
                   IF i * bucketSize < Len(arr) THEN i * bucketSize
                   ELSE Len(arr))]

\* chunkArray(arr, bucketSize)
RECURSIVE chunkArray(_, _)
chunkArray(arr, bucketSize) ==
    IF arr = <<>> THEN <<>>
    ELSE IF Len(arr) <= bucketSize THEN <<arr>>
    ELSE <<SubSeq(arr, 1, bucketSize)>>
             \o chunkArray(SubSeq(arr, bucketSize + 1, Len(arr)), bucketSize)

(***************************************************************************)
(* runner.ts: createRunner(options)                                        *)
(***************************************************************************)

\* options.mainLocale of the runs modelled here.
mainLocale == "en"

\* How many keys to process in one go.
BUCKET_SIZE == 25

\* localesInfo.find(localeInfo => localeInfo.locale === locale)
HasLocale(localesInfo, locale) ==
    \E i \in 1..Len(localesInfo) : localesInfo[i].locale = locale

LocaleInfoOf(localesInfo, locale) ==
    localesInfo[CHOOSE i \in 1..Len(localesInfo) :
                    localesInfo[i].locale = locale]

\* localeInfo.file[fileName] = content, for one locale of localesInfo
SetFile(localesInfo, locale, fileName, content) ==
    [i \in 1..Len(localesInfo) |->
        IF localesInfo[i].locale = locale
        THEN [localesInfo[i] EXCEPT !.file = Put(@, fileName, content)]
        ELSE localesInfo[i]]

\* A file name is the sequence of its dot-separated parts: <<"en", "json">>
\* is en.json.  A path is <<folder under dir, file name>>, the folder ""
\* being dir itself: join(dir, code, fileName) in the sub-folder layout,
\* join(dir, fileName) in the root-file layout, and the same under dest.
PathOf(isUsingSubFolders, code, fileName) ==
    IF isUsingSubFolders THEN <<code, fileName>> ELSE <<"", fileName>>

\* The name under which a locale's content is kept: the resource file's name
\* in the sub-folder layout, the locale's only file in the root-file layout.
LocaleFileName(isUsingSubFolders, localeInfo, fileName) ==
    IF isUsingSubFolders THEN fileName ELSE localeInfo.file[1].k

\* getFileContentForCodes(localeCodes): every locale's files, flattened.
\* The main locale is read from disk; every other locale from HEAD, and
\* from disk when its HEAD version is empty or missing.
getFileContentForCodes(localeCodes, isUsingSubFolders, mainFiles, onDisk, inHead) ==
    LET localeFiles(code) ==
            IF isUsingSubFolders THEN mainFiles ELSE <<<<code, "json">>>>
        content(code, fileName) ==
            LET filePath == PathOf(isUsingSubFolders, code, fileName)
                fileContent ==
                    flattenJSONFile(onDisk[filePath], inHead[filePath],
                                    code # mainLocale)
            IN  IF Len(fileContent) = 0 /\ code # mainLocale
                THEN flattenJSONFile(onDisk[filePath], inHead[filePath], FALSE)
                ELSE fileContent
    IN  [i \in 1..Len(localeCodes) |->
            [locale |-> localeCodes[i],
             file |-> [j \in 1..Len(localeFiles(localeCodes[i])) |->
                          [k |-> localeFiles(localeCodes[i])[j],
                           v |-> content(localeCodes[i],
                                         localeFiles(localeCodes[i])[j])]]]]

\* getGitDiffKeys(localesInfo, mainLocale): per file of the main locale, the
\* added and replaced keys (changed) and the deleted keys.
getGitDiffKeys(localesInfo, isUsingSubFolders, onDisk, inHead, forceTranslateAll) ==
    IF ~HasLocale(localesInfo, mainLocale)
    THEN [changed |-> <<>>, deleted |-> <<>>]
    ELSE LET fileNames == KeysOf(LocaleInfoOf(localesInfo, mainLocale).file)
             gitInfo(fileName) ==
                 LET filePath == PathOf(isUsingSubFolders, mainLocale, fileName)
                 IN  getGitDiffJSON(onDisk[filePath].map, inHead[filePath],
                                    forceTranslateAll)
         IN  [changed |->
                 [i \in 1..Len(fileNames) |->
                     [k |-> fileNames[i],
                      v |-> gitInfo(fileNames[i]).added
                                \o gitInfo(fileNames[i]).replaced]],
              deleted |->
                 [i \in 1..Len(fileNames) |->
                     [k |-> fileNames[i], v |-> gitInfo(fileNames[i]).deleted]]]

\* The keys of one file of the main locale that the locale's record has
\* with a falsy value: a key the record does not have is not missing.
MissingIn_presentOnly(fileKeys, fileRecord) ==
    SelectSeq(fileKeys, LAMBDA fileKey : /\ HasKey(fileRecord, fileKey)
                                         /\ Falsy(Get(fileRecord, fileKey)))

\* `fileRecord[fileKey] === undefined` instead of `!fileRecord[fileKey]`: a
\* key that is there counts as translated, whatever its value.
MissingIn_absentOnly(fileKeys, fileRecord) ==
    SelectSeq(fileKeys, LAMBDA fileKey : ~HasKey(fileRecord, fileKey))

\* The keys of one file of the main locale whose value in the locale's
\* record is falsy.
MissingIn(fileKeys, fileRecord) ==
    SelectSeq(fileKeys, LAMBDA fileKey : Falsy(Get(fileRecord, fileKey)))

\* missingKeyInfo.files of one locale, filled file by file.
RECURSIVE MissingFiles(_, _, _, _, _)
MissingFiles(files, fileNames, mainLocaleInfo, localeInfo, isUsingSubFolders) ==
    IF fileNames = <<>> THEN files
    ELSE LET fileName == Head(fileNames)
             localeFileName ==
                 LocaleFileName(isUsingSubFolders, localeInfo, fileName)
             missing ==
                 MissingIn(KeysOf(At(mainLocaleInfo.file, fileName)),
                           At(localeInfo.file, localeFileName))
             sofar == IF HasKey(files, localeFileName)
                      THEN At(files, localeFileName) ELSE <<>>
         IN  MissingFiles(IF missing = <<>> THEN files
                          ELSE Put(files, localeFileName, sofar \o missing),
                          Tail(fileNames), mainLocaleInfo, localeInfo,
                          isUsingSubFolders)

\* getMissingKeys(localesInfo, mainLocale)
getMissingKeys(localesInfo, isUsingSubFolders) ==
    IF ~HasLocale(localesInfo, mainLocale) THEN <<>>
    ELSE LET mainLocaleInfo == LocaleInfoOf(localesInfo, mainLocale)
             fileNames == KeysOf(mainLocaleInfo.file)
             others == SelectSeq(localesInfo,
                                 LAMBDA info : info.locale # mainLocale)
         IN  IF fileNames = <<>> THEN <<>>
             ELSE [i \in 1..Len(others) |->
                      [locale |-> others[i].locale,
                       files |-> MissingFiles(<<>>, fileNames, mainLocaleInfo,
                                              others[i], isUsingSubFolders)]]

\* getCommonMissingKeys(missingKeys)
getCommonMissingKeys(missingKeys) ==
    IF Len(missingKeys) > 1
    THEN LET fileNames == KeysOf(missingKeys[1].files)
             fileMissingKeys(fileName) ==
                 [i \in 1..Len(missingKeys) |->
                     IF HasKey(missingKeys[i].files, fileName)
                     THEN At(missingKeys[i].files, fileName)
                     ELSE <<>>]
         IN  [j \in 1..Len(fileNames) |->
                 [k |-> fileNames[j],
                  v |-> getCommonStrings(fileMissingKeys(fileNames[j]))]]
    ELSE <<>>

\* keysForFileName of run() with the two lists put one after the other, a
\* key of both twice.
KeysForFileName_concatenated(changed, commonMissingKeys) ==
    [i \in 1..Len(changed) |->
        [k |-> changed[i].k,
         v |-> changed[i].v \o (IF HasKey(commonMissingKeys, changed[i].k)
                                THEN At(commonMissingKeys, changed[i].k)
                                ELSE <<>>)]]

\* keysForFileName of run(): the changed keys of every file, then the keys
\* missing in every locale.
KeysForFileName(changed, commonMissingKeys) ==
    [i \in 1..Len(changed) |->
        [k |-> changed[i].k,
         v |-> getUniqueStringArray(
                   changed[i].v,
                   IF HasKey(commonMissingKeys, changed[i].k)
                   THEN At(commonMissingKeys, changed[i].k) ELSE <<>>)]]

(***************************************************************************)
(* updateAllLocaleFiles and updateLocaleFile.  run() is one control flow   *)
(* that is suspended only while a translateJSON call is outstanding: the   *)
(* operators below carry it from one suspension to the next.               *)
(***************************************************************************)

\* The arguments of one updateAllLocaleFiles call: the first call (pass 1)
\* gets keysForFileName, every locale and the deleted keys; the call for
\* missingKeys[mi] (pass 2) gets that locale's missing keys, that locale
\* alone and no deleted keys.
FrameOf(pass, mi, keysForFileName, deletedFileKeys, missingKeys, localesInfo) ==
    IF pass = 1
    THEN [keys |-> keysForFileName,
          work |-> [i \in 1..Len(localesInfo) |-> localesInfo[i].locale],
          deleted |-> deletedFileKeys]
    ELSE [keys |-> missingKeys[mi].files,
          work |-> <<missingKeys[mi].locale>>,
          deleted |-> <<>>]

\* fileNames of updateAllLocaleFiles
FileNamesOf(isUsingSubFolders, work, localesInfo) ==
    IF isUsingSubFolders
    THEN KeysOf(LocaleInfoOf(localesInfo, mainLocale).file)
    ELSE [i \in 1..Len(work) |-> LocaleInfoOf(localesInfo, work[i]).file[1].k]

\* totalKeysToUpdate of updateAllLocaleFiles
RECURSIVE TotalKeysToUpdate(_, _)
TotalKeysToUpdate(keysFor, fileNames) ==
    IF fileNames = <<>> THEN 0
    ELSE (IF HasKey(keysFor, Head(fileNames))
          THEN Len(At(keysFor, Head(fileNames))) ELSE 0)
         + TotalKeysToUpdate(keysFor, Tail(fileNames))

\* localesInfo.forEach(localeInfo => deletedKeys.forEach(key =>
\*   delete localeInfo.file[fileName][key])): a locale without a record of
\* that name makes the delete throw a TypeError, after the locales before it
\* were handled.
RECURSIVE DeleteFromLocales(_, _, _, _)
DeleteFromLocales(localesInfo, work, fileName, deletedKeys) ==
    IF work = <<>> THEN [crashed |-> FALSE, info |-> localesInfo]
    ELSE LET localeInfo == LocaleInfoOf(localesInfo, Head(work))
         IN  IF ~HasKey(localeInfo.file, fileName)
             THEN [crashed |-> TRUE, info |-> localesInfo]
             ELSE DeleteFromLocales(
                      SetFile(localesInfo, localeInfo.locale, fileName,
                              DeleteAll(At(localeInfo.file, fileName),
                                        deletedKeys)),
                      Tail(work), fileName, deletedKeys)

\* Where the control flow stops next.
Stop(pc, pass, mi, fi, localesInfo, missingKeys) ==
    [pc |-> pc, pass |-> pass, mi |-> mi, fi |-> fi, ci |-> 1,
     info |-> localesInfo, missing |-> missingKeys]

\* The control flow from file index fi of the updateAllLocaleFiles call
\* (pass, mi) on (fi = 0: from the start of that call), up to the next
\* translateJSON call ("awaiting"), an uncaught TypeError ("crashed") or the
\* end of run() ("done").  cfg holds isUsingSubFolders, keysForFileName and
\* mainLocaleChanges.deleted.
RECURSIVE NextStop(_, _, _, _, _, _)
NextStop(cfg, pass, mi, fi, localesInfo, missingKeys) ==
    LET frame == FrameOf(pass, mi, cfg.keysForFileName, cfg.deleted,
                         missingKeys, localesInfo)
        fileNames == FileNamesOf(cfg.sub, frame.work, localesInfo)
        again == getMissingKeys(localesInfo, cfg.sub)
        after ==
            IF pass = 1
            THEN (IF Len(again) > 0
                  THEN NextStop(cfg, 2, 1, 0, localesInfo, again)
                  ELSE Stop("done", 2, 0, 0, localesInfo, again))
            ELSE (IF mi < Len(missingKeys)
                  THEN NextStop(cfg, 2, mi + 1, 0, localesInfo, missingKeys)
                  ELSE Stop("done", 2, mi, 0, localesInfo, missingKeys))
    IN  IF fi = 0
        THEN (IF TotalKeysToUpdate(frame.keys, fileNames) > 0
              THEN NextStop(cfg, pass, mi, 1, localesInfo, missingKeys)
              ELSE after)
        ELSE IF fi > Len(fileNames) THEN after
        ELSE IF ~HasKey(frame.keys, fileNames[fi])
        THEN NextStop(cfg, pass, mi, fi + 1, localesInfo, missingKeys)
        ELSE LET fileName == fileNames[fi]
                 deletedKeys == IF HasKey(frame.deleted, fileName)
                                THEN At(frame.deleted, fileName) ELSE <<>>
                 del == IF Len(deletedKeys) > 0
                        THEN DeleteFromLocales(localesInfo, frame.work,
                                               fileName, deletedKeys)
                        ELSE [crashed |-> FALSE, info |-> localesInfo]
                 chunks == chunkArray(At(frame.keys, fileName), BUCKET_SIZE)
             IN  IF del.crashed
                 THEN Stop("crashed", pass, mi, fi, del.info, missingKeys)
                 ELSE IF Len(chunks) = 0
                 THEN NextStop(cfg, pass, mi, fi + 1, del.info, missingKeys)
                 ELSE Stop("awaiting", pass, mi, fi, del.info, missingKeys)

\* mainFileContents of updateLocaleFile
MainFileContents(isUsingSubFolders, localesInfo, fileName) ==
    LET mainLocaleInfo == LocaleInfoOf(localesInfo, mainLocale)
    IN  IF isUsingSubFolders THEN At(mainLocaleInfo.file, fileName)
        ELSE mainLocaleInfo.file[1].v

\* The translateJSON call of updateLocaleFile(fileName, mainLocaleInfo, keys,
\* localesInfo): the target locale codes and the key/value pairs sent.
CallOf(isUsingSubFolders, localesInfo, work, fileName, keys) ==
    [fileName |-> fileName,
     locales |-> SelectSeq(work, LAMBDA code : code # mainLocale),
     payload |-> [i \in 1..Len(keys) |->
                     [k |-> keys[i],
                      v |-> Get(MainFileContents(isUsingSubFolders,
                                                 localesInfo, fileName),
                                keys[i])]]]

\* The merge with localesInfo.find looking a locale of the reply up among
\* every locale that was loaded, not only in the working set of the call.
MergeReply_anyLocale(localesInfo, work, result, fileName, isUsingSubFolders) ==
    [i \in 1..Len(localesInfo) |->
        IF HasKey(result, localesInfo[i].locale)
        THEN [localesInfo[i] EXCEPT !.file =
                 Put(@, LocaleFileName(isUsingSubFolders, localesInfo[i],
                                       fileName),
                     PutAll(At(localesInfo[i].file,
                               LocaleFileName(isUsingSubFolders, localesInfo[i],
                                              fileName)),
                            At(result, localesInfo[i].locale)))]
        ELSE localesInfo[i]]

\* updateLocaleFile after the reply: every returned locale found in the
\* working set gets every returned key/value pair.
RECURSIVE MergeReply(_, _, _, _, _)
MergeReply(localesInfo, work, result, fileName, isUsingSubFolders) ==
    IF result = <<>> THEN localesInfo
    ELSE LET locale == Head(result).k
             translatedContent == Head(result).v
             localeInfo == LocaleInfoOf(localesInfo, locale)
             localeFileName ==
                 LocaleFileName(isUsingSubFolders, localeInfo, fileName)
         IN  IF locale \in Range(work)
             THEN MergeReply(
                      SetFile(localesInfo, locale, localeFileName,
                              PutAll(At(localeInfo.file, localeFileName),
                                     translatedContent)),
                      work, Tail(result), fileName, isUsingSubFolders)
             ELSE MergeReply(localesInfo, work, Tail(result), fileName,
                             isUsingSubFolders)

\* reorderedLocaleFileInfo of updateLocaleFile: the main file's keys in their
\* order, each with the locale's value unless that is undefined.
Reordered(mainFileContents, translatedLocaleFileInfo) ==
    LET kept == SelectSeq(KeysOf(mainFileContents),
                          LAMBDA key :
                              Get(translatedLocaleFileInfo, key) # Undefined)
    IN  [i \in 1..Len(kept) |->
            [k |-> kept[i], v |-> Get(translatedLocaleFileInfo, kept[i])]]

\* The paths updateLocaleFile writes: one per locale of the working set that
\* is not the main locale.
WrittenPaths(isUsingSubFolders, localesInfo, work, fileName) ==
    {PathOf(isUsingSubFolders, code,
            LocaleFileName(isUsingSubFolders, LocaleInfoOf(localesInfo, code),
                           fileName)) :
        code \in Range(work) \ {mainLocale}}

\* The disk after the writes of an updateLocaleFile that does not filter the
\* main locale out of the locales it writes.
WriteLocaleFiles_mainToo(onDisk, isUsingSubFolders, localesInfo, work, fileName) ==
    LET contentFor(path) ==
            LET code == CHOOSE c \in Range(work) :
                            PathOf(isUsingSubFolders, c,
                                   LocaleFileName(isUsingSubFolders,
                                                  LocaleInfoOf(localesInfo, c),
                                                  fileName)) = path
                localeInfo == LocaleInfoOf(localesInfo, code)
            IN  Reordered(MainFileContents(isUsingSubFolders, localesInfo,
                                           fileName),
                          At(localeInfo.file,
                             LocaleFileName(isUsingSubFolders, localeInfo,
                                            fileName)))
    IN  [path \in DOMAIN onDisk |->
            IF \E c \in Range(work) :
                   PathOf(isUsingSubFolders, c,
                          LocaleFileName(isUsingSubFolders,
                                         LocaleInfoOf(localesInfo, c),
                                         fileName)) = path
            THEN File(contentFor(path))
            ELSE onDisk[path]]

\* The disk after the writes of updateLocaleFile.
WriteLocaleFiles(onDisk, isUsingSubFolders, localesInfo, work, fileName) ==
    LET contentFor(path) ==
            LET code == CHOOSE c \in Range(work) \ {mainLocale} :
                            PathOf(isUsingSubFolders, c,
                                   LocaleFileName(isUsingSubFolders,
                                                  LocaleInfoOf(localesInfo, c),
                                                  fileName)) = path
                localeInfo == LocaleInfoOf(localesInfo, code)
            IN  Reordered(MainFileContents(isUsingSubFolders, localesInfo,
                                           fileName),
                          At(localeInfo.file,
                             LocaleFileName(isUsingSubFolders, localeInfo,
                                            fileName)))
    IN  [path \in DOMAIN onDisk |->
            IF path \in WrittenPaths(isUsingSubFolders, localesInfo, work,
                                     fileName)
            THEN File(contentFor(path))
            ELSE onDisk[path]]

\* options.dir, and what options.dest can be: dir itself (the default) or
\* another directory.
dir == "dir"
Dests == {dir, "out"}

\* The writes of updateLocaleFile going to join(dir, ...) whatever dest is.
WriteUnder_dir(destination, onDisk, onDest, isUsingSubFolders, localesInfo, work, fileName) ==
    [dir |-> WriteLocaleFiles(onDisk, isUsingSubFolders, localesInfo, work,
                              fileName),
     dest |-> onDest]

\* The files under dir and under dest after the writes of updateLocaleFile,
\* which go to join(dest, ...): onDest stands for the files under dest when
\* dest is not dir.
WriteUnder(destination, onDisk, onDest, isUsingSubFolders, localesInfo, work, fileName) ==
    IF destination = dir
    THEN [dir |-> WriteLocaleFiles(onDisk, isUsingSubFolders, localesInfo,
                                   work, fileName),
          dest |-> onDest]
    ELSE [dir |-> onDisk,
          dest |-> WriteLocaleFiles(onDest, isUsingSubFolders, localesInfo,
                                    work, fileName)]

\* isValidLocale(locale): /^[a-z]{2,3}(-[A-Z][a-z]{3})?(-[A-Z]{2})?$/, on the
\* names that occur in the model.
isValidLocale(locale) == locale \in {"de", "en", "fr"}

\* getLocaleCodesFromFolders() leaving out the folders that are no locale
\* code instead of returning null.
getLocaleCodesFromFolders_skipInvalid(folders) ==
    [null |-> FALSE, codes |-> SelectSeq(folders, isValidLocale)]

\* getLocaleCodesFromFolders(): null when a folder is no locale code.
getLocaleCodesFromFolders(folders) ==
    IF \E i \in 1..Len(folders) : ~isValidLocale(folders[i])
    THEN [null |-> TRUE, codes |-> <<>>]
    ELSE [null |-> FALSE, codes |-> folders]

\* getLocalCodesFromFiles(): fileName.split(".")[0] of every file of dir
\* that is a locale code; null when there is none.
getLocalCodesFromFiles(files) ==
    LET named == SelectSeq(files, LAMBDA fileName : isValidLocale(fileName[1]))
    IN  IF Len(named) = 0 THEN [null |-> TRUE, codes |-> <<>>]
        ELSE [null |-> FALSE, codes |-> [i \in 1..Len(named) |-> named[i][1]]]

\* getLocalCodes(): the locale codes and isUsingSubFolders.
getLocalCodes(folders, files) ==
    LET fromFolders == getLocaleCodesFromFolders(folders)
    IN  IF ~fromFolders.null /\ Len(fromFolders.codes) > 0
        THEN [null |-> FALSE, codes |-> fromFolders.codes, sub |-> TRUE]
        ELSE [null |-> getLocalCodesFromFiles(files).null,
              codes |-> getLocalCodesFromFiles(files).codes,
              sub |-> FALSE]

\* The sum of the lengths of the key lists of a record of key lists.
RECURSIVE CountKeys(_)
CountKeys(keysFor) ==
    IF keysFor = <<>> THEN 0 ELSE Len(Head(keysFor).v) + CountKeys(Tail(keysFor))

RECURSIVE CountMissing(_)
CountMissing(missingKeys) ==
    IF missingKeys = <<>> THEN 0
    ELSE CountKeys(Head(missingKeys).files) + CountMissing(Tail(missingKeys))

\* [totalKeyModifiedCount, totalKeyDeletedCount, totalKeyNewCount]
Totals(keysForFileName, deletedFileKeys, missingKeys) ==
    <<CountKeys(keysForFileName), CountKeys(deletedFileKeys),
      CountMissing(missingKeys)>>

(***************************************************************************)
(* The files and the translation backend a run meets                       *)
(***************************************************************************)

\* The keys of the resource files.
Keys == {"a", "b"}

\* The resource files of a locale folder, as listFilesInPath lists them: the
\* second is there in the runs of a locale with more than one file only.
ResourceFiles == << <<"common", "json">>, <<"home", "json">> >>

\* The locale codes found in dir, as readdirSync lists them: with the main
\* locale among them, or without it.
Listings == {<<"de", "en", "fr">>, <<"en", "fr">>, <<"de", "fr">>}

\* A folder of dir that is named after no locale.
StrayFolder == "assets"

AllLocales == {"de", "en", "fr"}

Paths ==
    {<<code, ResourceFiles[i]>> : code \in AllLocales, i \in 1..Len(ResourceFiles)}
        \cup {<<"", <<code, "json">>>> : code \in AllLocales}

\* The sequences of distinct keys of a set of keys.
KeySeqs(keys) ==
    {s \in UNION {[1..n -> keys] : n \in 0..Cardinality(keys)} :
        \A i, j \in 1..Len(s) : i # j => s[i] # s[j]}

\* The flat mappings with keys in keys and values in vals.
MapsOn(keys, vals) ==
    UNION {{[i \in 1..Len(ks) |-> [k |-> ks[i], v |-> f[i]]] :
               f \in [1..Len(ks) -> vals]} : ks \in KeySeqs(keys)}

\* The flat mappings over Keys with values in vals.
MapsOver(vals) == MapsOn(Keys, vals)

\* The current content of a main-locale file (every value "v1") and its
\* HEAD version: missing, or any keys in the order a, b, where "v0" is a
\* value that has changed since.
MainCurrent == MapsOver({"v1"}) \ {<<[k |-> "b", v |-> "v1"]>>}
MainHead ==
    {Absent} \cup
    {File(m) : m \in {x \in MapsOver({"v0", "v1"}) :
                         /\ \A i \in 1..Len(x) - 1 : x[i].k = "a"
                         /\ \A i \in 1..Len(x) : x[i].k = "b" => x[i].v = "v1"}}

\* The HEAD version and the disk version of another locale's file: committed
\* as it is on disk, edited by hand since the commit, not committed yet, or
\* not there at all (a new locale's empty folder).
Translated == MapsOver({"old"})
Manual(m) == [i \in 1..Len(m) |-> [k |-> m[i].k, v |-> "manual"]]
Committed == {[head |-> File(m), disk |-> File(m)] : m \in Translated}
LocaleFiles ==
    Committed
        \cup {[head |-> File(m), disk |-> File(Manual(m))] :
                 m \in {x \in Translated : Len(x) > 0 /\ x[1].k = "a"}}
        \cup {[head |-> Absent, disk |-> File(<<[k |-> "a", v |-> "old"]>>)],
              [head |-> Absent, disk |-> Absent]}
SecondLocaleFiles == {x \in Committed : Len(x.disk.map) # 1 \/ x.disk.map[1].k = "a"}

\* The replies of the translation backend to a call for the locales
\* `locales` with the key/value pairs `payload`: for no locale, for the
\* locales asked for, for every locale there is (the main locale among
\* them) or for the main locale alone; each locale with the keys sent in
\* the order sent, or with every key there is in the order b, a.
SeqOfSet(S) == SelectSeq(<<"de", "en", "fr">>, LAMBDA code : code \in S)
ReplyContents(payload) ==
    {[i \in 1..Len(payload) |-> [k |-> payload[i].k, v |-> "new"]],
     <<[k |-> "b", v |-> "new"], [k |-> "a", v |-> "new"]>>}
\* The replies that hold every locale asked for, each with the keys sent
\* and no other.
Asked(locales, payload) ==
    {[i \in 1..Len(locales) |->
         [k |-> locales[i],
          v |-> [j \in 1..Len(payload) |-> [k |-> payload[j].k, v |-> "new"]]]]}

\* The reply holds a value that is not empty for every locale asked for and
\* every key sent, whatever else it holds.
Covers(reply, locales, payload) ==
    \A i \in 1..Len(locales), j \in 1..Len(payload) :
        /\ HasKey(reply, locales[i])
        /\ ~Falsy(Get(At(reply, locales[i]), payload[j].k))

Replies(locales, payload) ==
    {<<>>} \cup
    {[i \in 1..Len(SeqOfSet(replied)) |->
         [k |-> SeqOfSet(replied)[i], v |-> m]] :
        replied \in {Range(locales), AllLocales, {mainLocale}},
        m \in ReplyContents(payload)}

(***************************************************************************)
(* One run of the runner                                                   *)
(***************************************************************************)

VARIABLES
    forceTranslateAll,  \* options.forceTranslateAll
    dirFolders,         \* the sub-folders of dir
    dirFiles,           \* the files of dir itself
    head,               \* path -> the file at HEAD (git show HEAD:<path>)
    disk,               \* path -> the file on disk
    disk0,              \* the disk before the run
    pc,                 \* "idle", "awaiting", "done", "aborted", "exited", "crashed"
    isUsingSubFolders,  \* set by getLocalCodes
    localesInfo,        \* the in-memory flat mappings of every locale
    gitInfo,            \* file name -> getGitDiffJSON of the main locale's file
    mainLocaleChanges,  \* getGitDiffKeys: changed and deleted, per file name
    keysForFileName,    \* the key lists of the first pass
    missingKeys,        \* getMissingKeys, as last computed
    cursor,             \* the updateAllLocaleFiles call, file and chunk reached
    call,               \* the translateJSON call outstanding (or the last one)
    ncalls,             \* translationFn calls made so far
    written,            \* the paths written so far
    result,             \* what run() returned
    faithful,           \* every reply so far held the locales and keys asked for
    complete,           \* every reply so far held them, if among others
    dest,               \* options.dest
    destFiles,          \* path under dest -> the file there, when dest is not dir
    failed,             \* a translateJSON call has failed
    arg,                \* the argument of a function of util.ts called alone
    out                 \* what the calls of that function returned, in order

vars == <<forceTranslateAll, dirFolders, dirFiles, head, disk, disk0, pc,
          isUsingSubFolders, localesInfo, gitInfo, mainLocaleChanges,
          keysForFileName, missingKeys, cursor, call, ncalls, written, result,
          faithful, complete, dest, destFiles, failed, arg, out>>

\* What a run of the runner leaves alone.
alone == <<arg, out>>

inputs == <<forceTranslateAll, dirFolders, dirFiles, head, disk0, dest>>

NoCall == [fileName |-> <<>>, locales |-> <<>>, payload |-> <<>>]
NoCursor == [pass |-> 0, mi |-> 0, fi |-> 0, ci |-> 0]

\* A dir in either layout holding the locales of `codes`: the main locale's
\* file with content cur and HEAD version prev, every other locale's file as
\* others gives it.  In the root-file layout a locale is found by its file,
\* which therefore exists (a new locale's file is empty).  dir may hold a
\* folder that is named after no locale, next to the locale folders or to
\* the locale files (in the runs without the force flag and with dest =
\* dir).
Init ==
    \E sub \in BOOLEAN, force \in BOOLEAN, codes \in Listings,
       cur \in MainCurrent, prev \in MainHead, stray \in BOOLEAN :
      \E others \in [Range(codes) \ {mainLocale} -> LocaleFiles] :
        LET fileOf(path) ==
                IF sub THEN path[2] = ResourceFiles[1] /\ path[1] \in Range(codes)
                ELSE path[1] = "" /\ path[2][1] \in Range(codes)
            codeOf(path) == IF sub THEN path[1] ELSE path[2][1]
        IN  /\ \A code \in DOMAIN others : sub \/ others[code].disk.exists
            /\ stray => ~force
            /\ "de" \in DOMAIN others => others["de"] \in SecondLocaleFiles
            /\ forceTranslateAll = force
            /\ dirFolders = (IF stray THEN <<StrayFolder>> ELSE <<>>)
                                \o (IF sub THEN codes ELSE <<>>)
            /\ dirFiles = (IF sub THEN <<>>
                           ELSE [i \in 1..Len(codes) |-> <<codes[i], "json">>])
            /\ head = [path \in Paths |->
                          IF ~fileOf(path) THEN Absent
                          ELSE IF codeOf(path) = mainLocale THEN prev
                          ELSE others[codeOf(path)].head]
            /\ disk = [path \in Paths |->
                          IF ~fileOf(path) THEN Absent
                          ELSE IF codeOf(path) = mainLocale THEN File(cur)
                          ELSE others[codeOf(path)].disk]
            /\ disk0 = disk
            /\ pc = "idle"
            /\ isUsingSubFolders = FALSE
            /\ localesInfo = <<>>
            /\ gitInfo = <<>>
            /\ mainLocaleChanges = [changed |-> <<>>, deleted |-> <<>>]
            /\ keysForFileName = <<>>
            /\ missingKeys = <<>>
            /\ cursor = NoCursor
            /\ call = NoCall
            /\ ncalls = 0
            /\ written = {}
            /\ result = <<>>
            /\ faithful = TRUE
            /\ complete = TRUE
            /\ dest \in (IF stray THEN {dir} ELSE Dests)
            /\ destFiles = [path \in Paths |-> Absent]
            /\ failed = FALSE
            /\ arg = <<>>
            /\ out = <<>>

\* The translateJSON call made where the control flow stops at `stop` with
\* a call outstanding.
CallAt(stop, sub, keysFor, deletedFileKeys) ==
    LET frame == FrameOf(stop.pass, stop.mi, keysFor, deletedFileKeys,
                         stop.missing, stop.info)
        fileNames == FileNamesOf(sub, frame.work, stop.info)
        fileName == fileNames[stop.fi]
        chunks == chunkArray(At(frame.keys, fileName), BUCKET_SIZE)
    IN  CallOf(sub, stop.info, frame.work, fileName, chunks[stop.ci])

\* The state in which the control flow stops at `stop`, in a run whose
\* layout, first-pass key lists and deleted keys are given.
StopAt(stop, sub, keysFor, deletedFileKeys) ==
        /\ pc' = stop.pc
        /\ localesInfo' = stop.info
        /\ missingKeys' = stop.missing
        /\ cursor' = [pass |-> stop.pass, mi |-> stop.mi, fi |-> stop.fi,
                      ci |-> stop.ci]
        /\ IF stop.pc = "awaiting"
           THEN /\ call' = CallAt(stop, sub, keysFor, deletedFileKeys)
                /\ ncalls' = ncalls + 1
           ELSE UNCHANGED <<call, ncalls>>
        /\ result' = IF stop.pc = "done"
                     THEN Totals(keysFor, deletedFileKeys, stop.missing)
                     ELSE result

\* run() without the check that the main locale is among the locale codes:
\* without the main locale, listing its folder throws in the sub-folder
\* layout, and in the root-file layout every locale's content is read and
\* there is nothing to do.
Start_withoutMainCheck(folders, files, onDisk, inHead, force) ==
    LET found == getLocalCodes(folders, files)
        mainFiles ==
            SelectSeq(ResourceFiles,
                      LAMBDA fileName : onDisk[<<mainLocale, fileName>>].exists)
        info == getFileContentForCodes(found.codes, found.sub, mainFiles,
                                       onDisk, inHead)
        fileNames == KeysOf(LocaleInfoOf(info, mainLocale).file)
        changes == getGitDiffKeys(info, found.sub, onDisk, inHead, force)
        missing == getMissingKeys(info, found.sub)
        keysFor == KeysForFileName(changes.changed,
                                   getCommonMissingKeys(missing))
        cfg == [sub |-> found.sub, keysForFileName |-> keysFor,
                deleted |-> changes.deleted]
    IN  IF found.null
        THEN [aborted |-> TRUE, sub |-> found.sub]
        ELSE IF mainLocale \notin Range(found.codes)
        THEN [aborted |-> FALSE,
              sub |-> found.sub,
              gitInfo |-> <<>>,
              changes |-> [changed |-> <<>>, deleted |-> <<>>],
              keysFor |-> <<>>,
              stop |-> Stop(IF found.sub THEN "crashed" ELSE "done", 1, 0, 0,
                            IF found.sub THEN <<>> ELSE info, <<>>)]
        ELSE [aborted |-> FALSE,
              sub |-> found.sub,
              gitInfo |->
                  [i \in 1..Len(fileNames) |->
                      [k |-> fileNames[i],
                       v |-> getGitDiffJSON(
                                 onDisk[PathOf(found.sub, mainLocale,
                                               fileNames[i])].map,
                                 inHead[PathOf(found.sub, mainLocale,
                                               fileNames[i])],
                                 force)]],
              changes |-> changes,
              keysFor |-> keysFor,
              stop |-> NextStop(cfg, 1, 0, 0, info, missing)]

\* run() from its start to the first updateAllLocaleFiles call, in a dir
\* with the given folders and files: the locale codes, every locale's
\* content, the changes of the main locale, the missing keys, the key lists
\* of the first pass and where the control flow stops first.
Start(folders, files, onDisk, inHead, force) ==
    LET found == getLocalCodes(folders, files)
        mainFiles ==
            SelectSeq(ResourceFiles,
                      LAMBDA fileName : onDisk[<<mainLocale, fileName>>].exists)
        info == getFileContentForCodes(found.codes, found.sub, mainFiles,
                                       onDisk, inHead)
        fileNames == KeysOf(LocaleInfoOf(info, mainLocale).file)
        changes == getGitDiffKeys(info, found.sub, onDisk, inHead, force)
        missing == getMissingKeys(info, found.sub)
        keysFor == KeysForFileName(changes.changed,
                                   getCommonMissingKeys(missing))
        cfg == [sub |-> found.sub, keysForFileName |-> keysFor,
                deleted |-> changes.deleted]
    IN  IF found.null \/ mainLocale \notin Range(found.codes)
        THEN [aborted |-> TRUE, sub |-> found.sub]
        ELSE [aborted |-> FALSE,
              sub |-> found.sub,
              gitInfo |->
                  [i \in 1..Len(fileNames) |->
                      [k |-> fileNames[i],
                       v |-> getGitDiffJSON(
                                 onDisk[PathOf(found.sub, mainLocale,
                                               fileNames[i])].map,
                                 inHead[PathOf(found.sub, mainLocale,
                                               fileNames[i])],
                                 force)]],
              changes |-> changes,
              keysFor |-> keysFor,
              stop |-> NextStop(cfg, 1, 0, 0, info, missing)]

\* run(), up to its first translateJSON call or, without one, to its end.
Run ==
    /\ pc = "idle"
    /\ \E start \in {Start(dirFolders, dirFiles, disk, head, forceTranslateAll)} :
           /\ isUsingSubFolders' = start.sub
           /\ IF start.aborted
              THEN /\ pc' = "aborted"
                   /\ UNCHANGED <<localesInfo, gitInfo, mainLocaleChanges,
                                  keysForFileName, missingKeys, cursor, call,
                                  ncalls, result>>
              ELSE /\ gitInfo' = start.gitInfo
                   /\ mainLocaleChanges' = start.changes
                   /\ keysForFileName' = start.keysFor
                   /\ StopAt(start.stop, start.sub, start.keysFor,
                             start.changes.deleted)
    /\ UNCHANGED <<inputs, disk, destFiles, written, faithful, complete,
                   failed, alone>>

\* updateAllLocaleFiles going on to the next file after the first chunk of
\* a file instead of awaiting every chunk in turn.
Reply_oneBatchPerFile ==
    /\ pc = "awaiting"
    /\ \E reply \in Replies(call.locales, call.payload) :
         LET frame == FrameOf(cursor.pass, cursor.mi, keysForFileName,
                              mainLocaleChanges.deleted, missingKeys,
                              localesInfo)
             merged == MergeReply(localesInfo, frame.work, reply,
                                  call.fileName, isUsingSubFolders)
             cfg == [sub |-> isUsingSubFolders,
                     keysForFileName |-> keysForFileName,
                     deleted |-> mainLocaleChanges.deleted]
         IN  /\ \E files \in {WriteUnder(dest, disk, destFiles,
                                            isUsingSubFolders, merged,
                                            frame.work, call.fileName)} :
                    disk' = files.dir /\ destFiles' = files.dest
             /\ written' = written \cup WrittenPaths(isUsingSubFolders, merged,
                                                     frame.work, call.fileName)
             /\ faithful' = (faithful /\ reply \in Asked(call.locales,
                                                          call.payload))
             /\ complete' = (complete /\ Covers(reply, call.locales,
                                                 call.payload))
             /\ StopAt(NextStop(cfg, cursor.pass, cursor.mi,
                                cursor.fi + 1, merged, missingKeys),
                       isUsingSubFolders, keysForFileName,
                       mainLocaleChanges.deleted)
    /\ UNCHANGED <<inputs, isUsingSubFolders, gitInfo, mainLocaleChanges,
                   keysForFileName, failed, alone>>

\* The backend's reply to the outstanding call parses: updateLocaleFile
\* merges it and writes the files of its working set, and the control flow
\* goes on to the next call or to the end of run().
Reply ==
    /\ pc = "awaiting"
    /\ \E reply \in Replies(call.locales, call.payload) :
         LET frame == FrameOf(cursor.pass, cursor.mi, keysForFileName,
                              mainLocaleChanges.deleted, missingKeys,
                              localesInfo)
             merged == MergeReply(localesInfo, frame.work, reply,
                                  call.fileName, isUsingSubFolders)
             chunks == chunkArray(At(frame.keys, call.fileName), BUCKET_SIZE)
             cfg == [sub |-> isUsingSubFolders,
                     keysForFileName |-> keysForFileName,
                     deleted |-> mainLocaleChanges.deleted]
         IN  /\ \E files \in {WriteUnder(dest, disk, destFiles,
                                            isUsingSubFolders, merged,
                                            frame.work, call.fileName)} :
                    disk' = files.dir /\ destFiles' = files.dest
             /\ written' = written \cup WrittenPaths(isUsingSubFolders, merged,
                                                     frame.work, call.fileName)
             /\ faithful' = (faithful /\ reply \in Asked(call.locales,
                                                          call.payload))
             /\ complete' = (complete /\ Covers(reply, call.locales,
                                                 call.payload))
             /\ StopAt(IF cursor.ci < Len(chunks)
                       THEN [Stop("awaiting", cursor.pass, cursor.mi,
                                  cursor.fi, merged, missingKeys)
                                EXCEPT !.ci = cursor.ci + 1]
                       ELSE NextStop(cfg, cursor.pass, cursor.mi,
                                     cursor.fi + 1, merged, missingKeys),
                       isUsingSubFolders, keysForFileName,
                       mainLocaleChanges.deleted)
    /\ UNCHANGED <<inputs, isUsingSubFolders, gitInfo, mainLocaleChanges,
                   keysForFileName, failed, alone>>

\* translateJSON logging the error and returning {} instead of exiting: the
\* batch is skipped, the files of the working set are written and the
\* control flow goes on.
TranslationFails_skipped ==
    /\ pc = "awaiting"
    /\ failed' = TRUE
    /\ LET frame == FrameOf(cursor.pass, cursor.mi, keysForFileName,
                            mainLocaleChanges.deleted, missingKeys,
                            localesInfo)
           cfg == [sub |-> isUsingSubFolders,
                   keysForFileName |-> keysForFileName,
                   deleted |-> mainLocaleChanges.deleted]
       IN  /\ \E files \in {WriteUnder(dest, disk, destFiles,
                                         isUsingSubFolders, localesInfo,
                                         frame.work, call.fileName)} :
                  disk' = files.dir /\ destFiles' = files.dest
           /\ written' = written \cup WrittenPaths(isUsingSubFolders,
                                                   localesInfo, frame.work,
                                                   call.fileName)
           /\ StopAt(NextStop(cfg, cursor.pass, cursor.mi, cursor.fi + 1,
                              localesInfo, missingKeys),
                     isUsingSubFolders, keysForFileName,
                     mainLocaleChanges.deleted)
    /\ UNCHANGED <<inputs, isUsingSubFolders, gitInfo, mainLocaleChanges,
                   keysForFileName, faithful, complete, alone>>

\* translateJSON writing the files of the working set from the in-memory
\* mappings before it exits.
TranslationFails_flushed ==
    /\ pc = "awaiting"
    /\ pc' = "exited"
    /\ failed' = TRUE
    /\ LET frame == FrameOf(cursor.pass, cursor.mi, keysForFileName,
                            mainLocaleChanges.deleted, missingKeys,
                            localesInfo)
       IN  /\ \E files \in {WriteUnder(dest, disk, destFiles,
                                         isUsingSubFolders, localesInfo,
                                         frame.work, call.fileName)} :
                  disk' = files.dir /\ destFiles' = files.dest
           /\ written' = written \cup WrittenPaths(isUsingSubFolders,
                                                   localesInfo, frame.work,
                                                   call.fileName)
    /\ UNCHANGED <<inputs, isUsingSubFolders, localesInfo, gitInfo,
                   mainLocaleChanges, keysForFileName, missingKeys, cursor,
                   call, ncalls, result, faithful, complete, alone>>

\* translationFn throws or rejects, or its reply is no JSON: translateJSON
\* logs the error and calls process.exit(1).
TranslationFails ==
    /\ pc = "awaiting"
    /\ pc' = "exited"
    /\ failed' = TRUE
    /\ UNCHANGED <<inputs, disk, destFiles, isUsingSubFolders, localesInfo,
                   gitInfo, mainLocaleChanges, keysForFileName, missingKeys,
                   cursor, call, ncalls, written, result, faithful, complete,
                   alone>>

Next == Run \/ Reply \/ TranslationFails

Spec == Init /\ [][Next]_vars

(***************************************************************************)
(* Properties of a run                                                     *)
(***************************************************************************)

\* The locale codes of the run.
Codes ==
    IF isUsingSubFolders THEN Range(dirFolders)
    ELSE {dirFiles[i][1] : i \in 1..Len(dirFiles)}

\* The path of the resource file of a locale.
FilePathOf(code) ==
    PathOf(isUsingSubFolders, code,
           IF isUsingSubFolders THEN ResourceFiles[1] ELSE <<code, "json">>)

\* The main locale's file before the run, which never writes it, and its
\* previous snapshot.
MainFile == disk0[FilePathOf(mainLocale)].map
MainSnapshot ==
    IF head[FilePathOf(mainLocale)].exists
    THEN head[FilePathOf(mainLocale)].map ELSE <<>>

\* The files under dest, where the run writes.
UnderDest == IF dest = dir THEN disk ELSE destFiles

\* The in-memory flat mapping of a locale's resource file.
InMemory(code) == LocaleInfoOf(localesInfo, code).file[1].v

\* The keys of the previous snapshot of the main locale's file that the
\* file has lost.
DeletedKeys == {key \in Range(KeysOf(MainSnapshot)) : ~HasKey(MainFile, key)}

\* The keys of the main locale's file that are new or whose value changed.
ChangedKeys ==
    {key \in Range(KeysOf(MainFile)) :
        ~HasKey(MainSnapshot, key) \/ At(MainSnapshot, key) # At(MainFile, key)}

\* C1: after a run without the force flag, every key of the previous
\* snapshot of the main locale's file that the file has lost is absent from
\* the in-memory mapping and from the file under dest of every other locale,
\* also when the run made no translation call.
C1_DeletionPropagation ==
    (pc = "done" /\ ~forceTranslateAll /\ faithful) =>
        \A key \in DeletedKeys :
            \A code \in Codes \ {mainLocale} :
                /\ ~HasKey(InMemory(code), key)
                /\ ~HasKey(UnderDest[FilePathOf(code)].map, key)

\* C2: after a run without the force flag, a key whose value in the main
\* locale's file is that of the previous snapshot and for which another
\* locale's file held a non-empty value before the run has that value in
\* that file after the run (the backend having replied to every call with
\* the locales and keys asked for).
C2_ManualEditsPreserved ==
    (pc = "done" /\ ~forceTranslateAll /\ faithful) =>
        \A code \in Codes \ {mainLocale} :
            \A key \in Range(KeysOf(MainFile)) \ ChangedKeys :
                ~Falsy(Get(disk0[FilePathOf(code)].map, key))
                    => Get(disk[FilePathOf(code)].map, key)
                           = Get(disk0[FilePathOf(code)].map, key)

\* C3: without the force flag, every key of the payload of a translation
\* call is an added or replaced key of the main locale's file or is falsy
\* or absent, when the call is made, in the in-memory mapping of every
\* target locale of the call.
C3_OnlyTheDeltaIsSent ==
    (pc = "awaiting" /\ ~forceTranslateAll) =>
        \A i \in 1..Len(call.payload) :
            \/ call.payload[i].k \in ChangedKeys
            \/ \A code \in Range(call.locales) :
                   Falsy(Get(InMemory(code), call.payload[i].k))

\* A call for one locale carries a key that has not changed in the main
\* locale's file and that another locale has.
C3_Witness ==
    /\ pc = "awaiting"
    /\ ~forceTranslateAll
    /\ \E i \in 1..Len(call.payload) :
           /\ call.payload[i].k \notin ChangedKeys
           /\ \A code \in Range(call.locales) :
                  Falsy(Get(InMemory(code), call.payload[i].k))
           /\ \E code \in Codes \ ({mainLocale} \cup Range(call.locales)) :
                  ~Falsy(Get(InMemory(code), call.payload[i].k))

\* s is a subsequence of t.
RECURSIVE IsSubsequence(_, _)
IsSubsequence(s, t) ==
    IF s = <<>> THEN TRUE
    ELSE IF t = <<>> THEN FALSE
    ELSE IF Head(s) = Head(t) THEN IsSubsequence(Tail(s), Tail(t))
    ELSE IsSubsequence(s, Tail(t))

\* C4: the keys of every file written for a locale other than the main one
\* are a subsequence of the keys of the main locale's file, in its order,
\* whatever the backend replied.
C4_WrittenKeyOrder ==
    \A path \in written :
        IsSubsequence(KeysOf(UnderDest[path].map), KeysOf(MainFile))

\* The files of dir, and dir itself, in the other layout: every locale's
\* resource file with the same content under the other layout's path.
Transposed(files) ==
    [path \in Paths |->
        IF isUsingSubFolders
        THEN (IF path[1] = "" /\ path[2][1] \in Codes
              THEN files[<<path[2][1], ResourceFiles[1]>>] ELSE Absent)
        ELSE (IF path[1] \in Codes /\ path[2] = ResourceFiles[1]
              THEN files[<<"", <<path[1], "json">>>>] ELSE Absent)]

OtherStart ==
    Start(IF isUsingSubFolders THEN <<>> ELSE SeqOfSet(Codes),
          IF isUsingSubFolders
          THEN [i \in 1..Len(dirFolders) |-> <<dirFolders[i], "json">>]
          ELSE <<>>,
          Transposed(disk0), Transposed(head), forceTranslateAll)

\* The in-memory content of every locale, whatever its file is called.
Contents(info) ==
    [i \in 1..Len(info) |-> [locale |-> info[i].locale, v |-> info[i].file[1].v]]

\* C5, for a run up to its first translation call: the run of the same
\* locales with the same content and the same HEAD versions in the other
\* layout computes the same change-set, removes the same deleted keys from
\* the in-memory mappings, makes the same first call (keys and target
\* locales) or, like this one, none, and returns the same totals.
C5_LayoutEquivalence ==
    (/\ pc \in {"awaiting", "done", "crashed"}
     /\ written = {}
     /\ \A code \in Codes : disk0[FilePathOf(code)].exists) =>
        \A other \in {OtherStart} :
            /\ ~other.aborted
            /\ other.gitInfo[1].v = gitInfo[1].v
            /\ other.stop.pc = pc
            /\ Contents(other.stop.info) = Contents(localesInfo)
            /\ pc = "awaiting" =>
                   \A otherCall \in {CallAt(other.stop, other.sub,
                                             other.keysFor,
                                             other.changes.deleted)} :
                       /\ otherCall.payload = call.payload
                       /\ otherCall.locales = call.locales
            /\ pc = "done" =>
                   Totals(other.keysFor, other.changes.deleted,
                          other.stop.missing) = result

\* C9: when HEAD has no version of the main locale's file and the force
\* flag is off, getGitDiffJSON returns what it returns for an empty previous
\* snapshot (every current key added, none replaced, none deleted) and
\* run() goes on to the translation calls or to its end (in a dir where
\* run() finds the main locale).
C9_LookupFailureIsEmptySnapshot ==
    (pc # "idle" /\ ~forceTranslateAll /\ mainLocale \in Codes
         /\ ~head[FilePathOf(mainLocale)].exists) =>
        /\ pc \in {"awaiting", "done", "exited"}
        /\ Len(gitInfo) = 1
        /\ gitInfo[1].v = [added |-> KeysOf(MainFile), replaced |-> <<>>,
                           deleted |-> <<>>]
        /\ gitInfo[1].v = getGitDiffJSON(MainFile, File(<<>>), FALSE)
        /\ mainLocaleChanges.changed[1].v = KeysOf(MainFile)
        /\ mainLocaleChanges.deleted[1].v = <<>>

\* Without a HEAD version of the main locale's file, a run has called the
\* backend with both keys of the file.
C9_Witness ==
    /\ pc = "awaiting"
    /\ ~forceTranslateAll
    /\ ~head[FilePathOf(mainLocale)].exists
    /\ Len(MainFile) = 2
    /\ gitInfo[1].v.added = KeysOf(MainFile)
    /\ KeysOf(call.payload) = KeysOf(MainFile)

\* C13: once a translateJSON call has failed (translationFn threw or
\* rejected, or its reply was no JSON) the run is over: the failure leaves
\* the process exited, with no further call made and nothing returned, and
\* no step of the run follows it.
C13_FailureEndsTheRun ==
    [][/\ ~failed
       /\ failed' => /\ pc' = "exited"
                     /\ ncalls' = ncalls
                     /\ result' = <<>>]_vars

\* The second call of a run has failed, after the first was answered and
\* keys were left to translate for another locale.
C13_Witness ==
    /\ failed
    /\ pc = "exited"
    /\ ncalls = 2
    /\ cursor.pass = 2
    /\ cursor.mi < Len(missingKeys)

\* C14, as claimed: when a translateJSON call has failed, the run has
\* written no file.
C14_NothingWrittenOnFailure ==
    failed => /\ written = {}
              /\ disk = disk0
              /\ \A path \in Paths : ~destFiles[path].exists

\* C14, amended: the call that fails writes nothing, so a run whose first
\* call fails has written no file; the files written after the calls
\* answered before it stay as written.
C14_FailedBatchWritesNothing ==
    [][failed' =>
          /\ UNCHANGED <<disk, destFiles, written>>
          /\ ncalls' = 1 => /\ written' = {}
                            /\ disk' = disk0
                            /\ \A path \in Paths : ~destFiles'[path].exists]_vars

\* The second call of a run has failed and the files written after the
\* first call are there, with what the first reply held.
C14_Witness ==
    /\ failed
    /\ ncalls = 2
    /\ written # {}
    /\ \E path \in written, key \in Keys :
           Get(UnderDest[path].map, key) = "new"

\* dir has a folder that is named after no locale; dir has a file that is
\* named after a locale.
HasInvalidFolder == \E i \in 1..Len(dirFolders) : ~isValidLocale(dirFolders[i])
HasLocaleFile == \E i \in 1..Len(dirFiles) : isValidLocale(dirFiles[i][1])

\* C15, as claimed: a run in a dir with a folder that is named after no
\* locale aborts, with no call made and no file written.
C15_InvalidFolderAborts ==
    (pc # "idle" /\ HasInvalidFolder) =>
        /\ pc = "aborted"
        /\ ncalls = 0
        /\ written = {}

\* C15, amended: a run in a dir with a folder that is named after no locale
\* and without a file named after a locale aborts, with no locale content
\* read, no call made and no file written; with files named after locales,
\* the main one among them, it goes on in the root-file layout.
C15_InvalidFolderWithoutLocaleFilesAborts ==
    (pc # "idle" /\ HasInvalidFolder) =>
        IF ~HasLocaleFile
        THEN /\ pc = "aborted"
             /\ localesInfo = <<>>
             /\ ncalls = 0
             /\ written = {}
             /\ disk = disk0
             /\ result = <<>>
        ELSE /\ ~isUsingSubFolders
             /\ pc = "aborted" <=> mainLocale \notin Codes

\* A run has aborted in a dir with the main locale's folder, another
\* locale's folder and a folder that is named after no locale.
C15_Witness ==
    /\ pc = "aborted"
    /\ HasInvalidFolder
    /\ ~HasLocaleFile
    /\ {mainLocale, "fr"} \subseteq Range(dirFolders)
    /\ ncalls = 0

\* C16: when the main locale is not among the locale codes found in dir,
\* run() returns before it reads the content of any locale: no call is
\* made, no file is written and nothing but the empty list is returned.
C16_MainLocaleAbsentAborts ==
    (/\ pc # "idle"
     /\ ~getLocalCodes(dirFolders, dirFiles).null
     /\ mainLocale \notin Range(getLocalCodes(dirFolders, dirFiles).codes)) =>
        /\ pc = "aborted"
        /\ localesInfo = <<>>
        /\ gitInfo = <<>>
        /\ ncalls = 0
        /\ written = {}
        /\ disk = disk0
        /\ \A path \in Paths : ~destFiles[path].exists
        /\ result = <<>>

\* A run has aborted in a dir that holds two locales, neither of them the
\* main one, one of them with nothing translated yet.
C16_Witness ==
    /\ pc = "aborted"
    /\ ~HasInvalidFolder
    /\ getLocalCodes(dirFolders, dirFiles).codes = <<"de", "fr">>
    /\ \E path \in Paths : disk0[path].exists /\ disk0[path].map = <<>>
    /\ ncalls = 0

\* What run() loaded for a locale before its first pass: the flat mapping of
\* getFileContentForCodes.
Loaded(code) ==
    LocaleInfoOf(getFileContentForCodes(
                     getLocalCodes(dirFolders, dirFiles).codes,
                     isUsingSubFolders, <<ResourceFiles[1]>>, disk0, head),
                 code).file[1].v

\* The keys of the main locale's file that a locale is missing before the
\* first pass, and the keys that every other locale is missing.
MissingOf(code) ==
    {key \in Range(KeysOf(MainFile)) : Falsy(Get(Loaded(code), key))}
MissingInAll ==
    {key \in Range(KeysOf(MainFile)) :
        \A code \in Codes \ {mainLocale} : key \in MissingOf(code)}

\* The common-missing list of the main locale's resource file, as run()
\* looks it up (commonMissingKeys[fileName] || []).
CommonMissing ==
    LET commonMissingKeys ==
            getCommonMissingKeys(
                getMissingKeys(
                    getFileContentForCodes(
                        getLocalCodes(dirFolders, dirFiles).codes,
                        isUsingSubFolders, <<ResourceFiles[1]>>, disk0, head),
                    isUsingSubFolders))
        fileName == KeysOf(mainLocaleChanges.changed)[1]
    IN  IF HasKey(commonMissingKeys, fileName)
        THEN At(commonMissingKeys, fileName) ELSE <<>>

\* C12: in a run with two or more other locales, the common-missing list
\* of the resource file holds exactly the keys that every other locale is
\* missing, and a call of the second pass carries the keys its locale was
\* missing less those (the backend having replied to every call with the
\* locales and keys asked for).
C12_CommonAndPerLocaleMissing ==
    (/\ pc \in {"awaiting", "done", "exited"}
     /\ faithful
     /\ Cardinality(Codes \ {mainLocale}) >= 2) =>
        /\ Range(CommonMissing) = MissingInAll
        /\ (pc = "awaiting" /\ cursor.pass = 2) =>
               Range(KeysOf(call.payload))
                   = MissingOf(call.locales[1]) \ MissingInAll

\* The same in the sub-folder layout alone, for the common-missing list.
C12_CommonMissingInSubFolders ==
    (/\ pc \in {"awaiting", "done", "exited"}
     /\ isUsingSubFolders
     /\ Cardinality(Codes \ {mainLocale}) >= 2) =>
        Range(CommonMissing) = MissingInAll

\* The same in the sub-folder layout alone, for the second pass.
C12_SecondPassInSubFolders ==
    (/\ pc = "awaiting" /\ cursor.pass = 2
     /\ faithful
     /\ isUsingSubFolders
     /\ Cardinality(Codes \ {mainLocale}) >= 2) =>
        Range(KeysOf(call.payload))
            = MissingOf(call.locales[1]) \ MissingInAll

\* C17: after a run that came to its end, the backend having replied to
\* every call with a value for every locale asked for and every key sent
\* (and whatever else), every other locale that
\* was missing keys of the main locale's file has had its file written
\* under dest, and the file holds a value for every key of the main
\* locale's file; so has a locale whose folder was empty or whose file was
\* empty.
C17_NewLocaleFileWritten ==
    (pc = "done" /\ complete) =>
        \A code \in Codes \ {mainLocale} :
            MissingOf(code) # {} =>
                /\ FilePathOf(code) \in written
                /\ UnderDest[FilePathOf(code)].exists
                /\ \A key \in Range(KeysOf(MainFile)) :
                       ~Falsy(Get(UnderDest[FilePathOf(code)].map, key))

\* A run has come to its end in a dir where a locale's folder was empty and
\* another locale had every key: the new locale's file is written, under a
\* dest that is not dir, with both keys of the main locale's file.
C17_Witness ==
    /\ pc = "done"
    /\ faithful
    /\ isUsingSubFolders
    /\ dest # dir
    /\ Len(MainFile) = 2
    /\ \E new, old \in Codes \ {mainLocale} :
           /\ ~disk0[FilePathOf(new)].exists
           /\ ~head[FilePathOf(new)].exists
           /\ MissingOf(old) = {}
           /\ FilePathOf(new) \in written
           /\ KeysOf(destFiles[FilePathOf(new)].map) = KeysOf(MainFile)

\* The paths of the main locale's file in the two layouts.
MainPaths ==
    {PathOf(TRUE, mainLocale, ResourceFiles[1]),
     PathOf(FALSE, mainLocale, <<mainLocale, "json">>)}

\* C18: no write of a run goes to the main locale's file: its path is not
\* among the paths written, the file under dir is as it was before the run
\* and there is none under a dest that is not dir.
C18_MainFileNeverWritten ==
    \A path \in MainPaths :
        /\ path \notin written
        /\ disk[path] = disk0[path]
        /\ ~destFiles[path].exists

\* With dest = dir, files have been written after a reply that named the
\* main locale and changed its in-memory mapping.
C18_Witness ==
    /\ dest = dir
    /\ written # {}
    /\ pc \in {"awaiting", "done"}
    /\ InMemory(mainLocale) # MainFile
    /\ disk[FilePathOf(mainLocale)].map = MainFile

\* C19: in a run with a dest that is not dir, every file under dir is as it
\* was before the run (none created, changed or removed), whatever has
\* been written.
C19_DirUntouched ==
    dest # dir => disk = disk0

\* With a dest that is not dir, the file of a locale has been written under
\* dest with a key that its file under dir, unchanged, does not have.
C19_Witness ==
    /\ dest # dir
    /\ disk = disk0
    /\ \E path \in written, key \in Keys :
           /\ destFiles[path].exists
           /\ HasKey(destFiles[path].map, key)
           /\ ~HasKey(disk[path].map, key)

\* The keys of the main locale's file that the first pass takes as added
\* or replaced: every key with the force flag.
FirstPassChanged ==
    IF forceTranslateAll THEN Range(KeysOf(MainFile)) ELSE ChangedKeys

\* The (locale, key) pairs of missingKeys as the second pass got it.
StillMissing ==
    UNION {{<<missingKeys[i].locale, key>> :
               key \in UNION {Range(missingKeys[i].files[j].v) :
                                 j \in 1..Len(missingKeys[i].files)}} :
           i \in 1..Len(missingKeys)}

\* C22: a run that has come to its end has returned three counts: the
\* number of distinct keys that are added, replaced or in the common-missing
\* list, which is the number of keys of the first-pass key list; the number
\* of keys of the previous snapshot that the main locale's file has lost
\* (none with the force flag); the number of (locale, key) pairs that were
\* missing when the second pass began.
C22_SummaryTriple ==
    pc = "done" =>
        /\ Len(result) = 3
        /\ result[1] = Cardinality(FirstPassChanged \cup Range(CommonMissing))
        /\ result[1] = Len(keysForFileName[1].v)
        /\ result[2] = (IF forceTranslateAll THEN 0
                        ELSE Cardinality(DeletedKeys))
        /\ result[3] = Cardinality(StillMissing)

\* A run has come to its end with a key that was both new in the main
\* locale's file and missing in every locale, a deleted key and a key that
\* one locale alone was missing.
C22_Witness ==
    /\ pc = "done"
    /\ FirstPassChanged \cap Range(CommonMissing) # {}
    /\ result[1] = 1
    /\ result[2] = 1
    /\ result[3] >= 1

\* The run's deleted set: the keys that the diff of the main locale's file
\* reports as deleted.
DeletedSet == IF forceTranslateAll THEN {} ELSE DeletedKeys

\* C23: while a translation call is outstanding, no key of the run's deleted
\* set is in the in-memory mapping of any locale.
C23_DeletedBeforeAnyCall ==
    pc = "awaiting" =>
        \A key \in DeletedSet :
            \A code \in Codes : ~HasKey(InMemory(code), key)

\* C23 for the calls of the first pass alone, which is what the code does:
\* updateAllLocaleFiles deletes before it cuts the keys of a file in chunks.
C23_DeletedBeforeFirstPassCall ==
    (pc = "awaiting" /\ cursor.pass = 1) =>
        \A key \in DeletedSet :
            \A code \in Codes : ~HasKey(InMemory(code), key)

\* C24: the content of a locale other than the main one is not read from
\* the history: before the first reply of a run that deletes no key, the
\* in-memory mapping of every such locale is the flat mapping of its file
\* in dir (empty when there is no file).
C24_OtherLocalesReadFromDir ==
    (/\ \/ pc = "done" /\ ncalls = 0
        \/ pc = "awaiting" /\ ncalls = 1
     /\ DeletedSet = {}) =>
        \A code \in Codes \ {mainLocale} :
            InMemory(code) = disk0[FilePathOf(code)].map

\* C29: throughout a run, the in-memory mapping of the main locale is the
\* flat mapping of its file as loaded, whatever the replies held.
C29_MainMappingUntouched ==
    pc \in {"awaiting", "done", "exited", "crashed"} =>
        InMemory(mainLocale) = MainFile

\* C29 for the runs in which every reply held the locales and keys asked
\* for and no other: neither a deletion nor a merge has changed the main
\* locale's mapping.
C29_MainMappingUntouchedWhenFaithful ==
    (pc \in {"awaiting", "done", "exited", "crashed"} /\ faithful) =>
        InMemory(mainLocale) = MainFile

(***************************************************************************)
(* One run of the runner over locale folders with two resource files       *)
(***************************************************************************)

\* The current content of a file of the main locale, its HEAD versions (the
\* same content, or one in which a had another value and b was not there)
\* and the files of the other locales: committed as they are with one or
\* both keys, or not there; the second other locale has every key.
MultiCurrent ==
    {<<[k |-> "a", v |-> "v1"]>>,
     <<[k |-> "a", v |-> "v1"], [k |-> "b", v |-> "v1"]>>}
MultiHead(cur) == {File(cur), File(<<[k |-> "a", v |-> "v0"]>>)}
MultiLocale ==
    {[head |-> File(m), disk |-> File(m)] :
        m \in {<<[k |-> "a", v |-> "old"]>>,
               <<[k |-> "a", v |-> "old"], [k |-> "b", v |-> "old"]>>}}
        \cup {[head |-> Absent, disk |-> Absent]}
SecondMultiLocale ==
    {[head |-> File(m), disk |-> File(m)] :
        m \in {<<[k |-> "a", v |-> "old"], [k |-> "b", v |-> "old"]>>}}

\* The index of a resource file.
FileIndex(fileName) ==
    CHOOSE i \in DOMAIN ResourceFiles : ResourceFiles[i] = fileName

\* A dir of locale folders, the main locale's with every resource file.
MultiInit ==
    \E force \in BOOLEAN, codes \in {<<"de", "en", "fr">>, <<"en", "fr">>},
       cur \in [DOMAIN ResourceFiles -> MultiCurrent],
       fr \in [DOMAIN ResourceFiles -> MultiLocale],
       de \in [DOMAIN ResourceFiles -> SecondMultiLocale] :
      \E prev \in [DOMAIN ResourceFiles ->
                      UNION {MultiHead(c) : c \in MultiCurrent}] :
        LET there(path) ==
                path[1] \in Range(codes) /\ path[2] \in Range(ResourceFiles)
            of(path, which) ==
                IF path[1] = mainLocale
                THEN (IF which = "head" THEN prev[FileIndex(path[2])]
                      ELSE File(cur[FileIndex(path[2])]))
                ELSE IF path[1] = "fr"
                THEN (IF which = "head" THEN fr[FileIndex(path[2])].head
                      ELSE fr[FileIndex(path[2])].disk)
                ELSE (IF which = "head" THEN de[FileIndex(path[2])].head
                      ELSE de[FileIndex(path[2])].disk)
        IN  /\ \A i \in DOMAIN ResourceFiles : prev[i] \in MultiHead(cur[i])
            /\ forceTranslateAll = force
            /\ dirFolders = codes
            /\ dirFiles = <<>>
            /\ head = [path \in Paths |->
                          IF there(path) THEN of(path, "head") ELSE Absent]
            /\ disk = [path \in Paths |->
                          IF there(path) THEN of(path, "disk") ELSE Absent]
            /\ disk0 = disk
            /\ pc = "idle"
            /\ isUsingSubFolders = FALSE
            /\ localesInfo = <<>>
            /\ gitInfo = <<>>
            /\ mainLocaleChanges = [changed |-> <<>>, deleted |-> <<>>]
            /\ keysForFileName = <<>>
            /\ missingKeys = <<>>
            /\ cursor = NoCursor
            /\ call = NoCall
            /\ ncalls = 0
            /\ written = {}
            /\ result = <<>>
            /\ faithful = TRUE
            /\ complete = TRUE
            /\ dest = dir
            /\ destFiles = [path \in Paths |-> Absent]
            /\ failed = FALSE
            /\ arg = <<>>
            /\ out = <<>>

MultiSpec == MultiInit /\ [][Next]_vars

\* A resource file of the main locale is what its HEAD version is.
SameAsSnapshot(fileName) ==
    /\ head[<<mainLocale, fileName>>].exists
    /\ head[<<mainLocale, fileName>>].map = disk0[<<mainLocale, fileName>>].map

\* No other locale is missing a key of the resource file: every key of the
\* main locale's file has a value that is not falsy in the mapping run()
\* loads for the locale.
NothingMissing(fileName) ==
    \A code \in Range(dirFolders) \ {mainLocale} :
        \A key \in Range(KeysOf(disk0[<<mainLocale, fileName>>].map)) :
            ~Falsy(Get(At(LocaleInfoOf(getFileContentForCodes(
                                           dirFolders, TRUE, ResourceFiles,
                                           disk0, head),
                                       code).file,
                          fileName),
                       key))

\* C20: without the force flag, a resource file that is what its HEAD
\* version is and of which no other locale is missing a key is the subject
\* of no call and is written for no locale; when that is so of every
\* resource file the run ends without a call, without a write and with
\* nothing to report.
C20_NoopRun ==
    (pc # "idle" /\ ~forceTranslateAll) =>
        /\ \A fileName \in Range(ResourceFiles) :
               (SameAsSnapshot(fileName) /\ NothingMissing(fileName)) =>
                   /\ call.fileName # fileName
                   /\ \A code \in Range(dirFolders) :
                          /\ <<code, fileName>> \notin written
                          /\ disk[<<code, fileName>>] = disk0[<<code, fileName>>]
        /\ (\A fileName \in Range(ResourceFiles) :
                SameAsSnapshot(fileName) /\ NothingMissing(fileName)) =>
               /\ pc = "done"
               /\ ncalls = 0
               /\ written = {}
               /\ disk = disk0
               /\ result = <<0, 0, 0>>

\* A run over three locales with two resource files of two keys each, all
\* as committed and all translated, has ended without a call.
C20_Witness ==
    /\ pc = "done"
    /\ ~forceTranslateAll
    /\ Len(dirFolders) = 3
    /\ \A fileName \in Range(ResourceFiles) :
           /\ Len(disk0[<<mainLocale, fileName>>].map) = 2
           /\ SameAsSnapshot(fileName)
           /\ NothingMissing(fileName)
    /\ ncalls = 0

\* One resource file is left alone while the other, in which the main
\* locale has a new key, is the subject of a call.
C20_OneFileLeftAlone ==
    /\ pc = "awaiting"
    /\ ~forceTranslateAll
    /\ call.fileName = ResourceFiles[2]
    /\ SameAsSnapshot(ResourceFiles[1])
    /\ NothingMissing(ResourceFiles[1])
    /\ written # {}

(***************************************************************************)
(* One run of the runner over resource files with more keys than a batch   *)
(* holds                                                                   *)
(***************************************************************************)

\* The most keys of a resource file: two full batches and one key more.
MaxKeys == 51

\* The numbers of keys of the two resource files: a batch and one more or
\* the most; one.
Sizes == <<{BUCKET_SIZE + 1, MaxKeys}, {1}>>

\* A resource file of n keys, named "1" to n, every value v.
LongFile(n, v) == [i \in 1..n |-> [k |-> ToString(i), v |-> v]]

\* A dir of the locale folders en and fr; the main locale's has both
\* resource files, committed as they are; a file of fr is committed with
\* every key or is not there.
BatchInit ==
    \E force \in BOOLEAN, codes \in {<<"en", "fr">>},
       n \in [DOMAIN ResourceFiles -> UNION Range(Sizes)],
       fr \in [DOMAIN ResourceFiles -> BOOLEAN] :
        LET there(path) ==
                /\ path[1] \in Range(codes)
                /\ path[2] \in Range(ResourceFiles)
                /\ path[1] = "fr" => fr[FileIndex(path[2])]
            of(path) ==
                File(LongFile(n[FileIndex(path[2])],
                              IF path[1] = mainLocale THEN "v1" ELSE "old"))
        IN  /\ \A i \in DOMAIN ResourceFiles : n[i] \in Sizes[i]
            /\ forceTranslateAll = force
            /\ dirFolders = codes
            /\ dirFiles = <<>>
            /\ head = [path \in Paths |->
                          IF there(path) THEN of(path) ELSE Absent]
            /\ disk = head
            /\ disk0 = disk
            /\ pc = "idle"
            /\ isUsingSubFolders = FALSE
            /\ localesInfo = <<>>
            /\ gitInfo = <<>>
            /\ mainLocaleChanges = [changed |-> <<>>, deleted |-> <<>>]
            /\ keysForFileName = <<>>
            /\ missingKeys = <<>>
            /\ cursor = NoCursor
            /\ call = NoCall
            /\ ncalls = 0
            /\ written = {}
            /\ result = <<>>
            /\ faithful = TRUE
            /\ complete = TRUE
            /\ dest = dir
            /\ destFiles = [path \in Paths |-> Absent]
            /\ failed = FALSE
            /\ arg = <<>>
            /\ out = <<>>

BatchSpec == BatchInit /\ [][Next]_vars

\* The key list of a resource file in the updateAllLocaleFiles call that
\* the control flow is in, and the file names of that call.
KeyListHere(fileName) ==
    LET frame == FrameOf(cursor.pass, cursor.mi, keysForFileName,
                         mainLocaleChanges.deleted, missingKeys, localesInfo)
    IN  IF HasKey(frame.keys, fileName) THEN At(frame.keys, fileName)
        ELSE <<>>
FileNamesHere ==
    FileNamesOf(isUsingSubFolders,
                FrameOf(cursor.pass, cursor.mi, keysForFileName,
                        mainLocaleChanges.deleted, missingKeys,
                        localesInfo).work,
                localesInfo)

\* The keys of the outstanding call and how many keys of the file's list
\* have been sent with it and the calls before it.
PayloadKeys == KeysOf(call.payload)
SentSoFar == (cursor.ci - 1) * BUCKET_SIZE + Len(call.payload)

\* The file of every locale of the outstanding call is, in the next state,
\* on disk with entries of the locale's in-memory mapping of the next
\* state, the entries of the keys of the call among them.
WrittenAsMerged ==
    \A i \in 1..Len(call.locales) :
        LET path == <<call.locales[i], call.fileName>>
            merged == Range(At(LocaleInfoOf(localesInfo', call.locales[i]).file,
                               call.fileName))
        IN  /\ path \in written'
            /\ disk'[path].exists
            /\ Range(disk'[path].map) \subseteq merged
            /\ {e \in merged : e.k \in Range(PayloadKeys)}
                   \subseteq Range(disk'[path].map)

\* C25: the calls of a run follow one another.  When the reply to the
\* outstanding call has been handled, the files of the call are written
\* with the merged content; if keys of the file's list are still unsent,
\* the next call is the next batch of the same file, with the keys that
\* follow; only otherwise the run ends or goes on to a later file of the
\* same pass or to the second pass, and it goes from the first pass to the
\* second only when no later file of the first pass has keys.  The first
\* call of a run is one of the second pass only if the first pass has no
\* key at all.
C25_OneCallAfterAnother ==
    [][/\ (pc = "awaiting" /\ pc' \in {"awaiting", "done"}) =>
            /\ WrittenAsMerged
            /\ IF SentSoFar < Len(KeyListHere(call.fileName))
               THEN /\ pc' = "awaiting"
                    /\ cursor' = [cursor EXCEPT !.ci = cursor.ci + 1]
                    /\ call'.fileName = call.fileName
                    /\ PayloadKeys' =
                           SubSeq(KeyListHere(call.fileName), SentSoFar + 1,
                                  SentSoFar + Len(call'.payload))
               ELSE /\ cursor'.pass >= cursor.pass
                    /\ (pc' = "awaiting" /\ cursor'.pass = cursor.pass) =>
                           /\ cursor'.ci = 1
                           /\ \/ cursor'.mi > cursor.mi
                              \/ cursor'.mi = cursor.mi
                                     /\ cursor'.fi > cursor.fi
                    /\ (cursor.pass = 1 /\ cursor'.pass = 2) =>
                           \A fi \in (cursor.fi + 1)..Len(FileNamesHere) :
                               KeyListHere(FileNamesHere[fi]) = <<>>
       /\ (pc = "idle" /\ pc' = "awaiting" /\ cursor'.pass = 2) =>
            \A i \in 1..Len(keysForFileName') :
                keysForFileName'[i].v = <<>>]_vars

\* The third batch of a file of the first pass is outstanding, with the one
\* key that two full batches left; the second pass has its second batch
\* outstanding.
C25_Witness ==
    /\ pc = "awaiting"
    /\ cursor.pass = 1
    /\ cursor.ci = 3
    /\ PayloadKeys = <<ToString(2 * BUCKET_SIZE + 1)>>
    /\ written # {}
C25_SecondPassBatch ==
    /\ pc = "awaiting"
    /\ cursor.pass = 2
    /\ cursor.ci = 2

(***************************************************************************)
(* getGitDiffJSON called alone, once or repeatedly, on one pair of         *)
(* snapshots                                                               *)
(***************************************************************************)

\* How often getGitDiffJSON is called on the same pair of snapshots.
MaxCalls == 2

\* The keys and values of the snapshots.
DiffKeys == {"a", "b", "c"}
DiffValues == {"1", "2"}

\* The pairs of snapshots: a current flat mapping and a HEAD version (missing,
\* or any flat mapping), among them P = {a:1, b:2}, C = {a:1, b:3, c:4}.
DiffArgs ==
    {[current |-> c, inHead |-> h, forceTranslateAll |-> f] :
        c \in MapsOn(DiffKeys, DiffValues),
        h \in {Absent} \cup {File(m) : m \in MapsOn(DiffKeys, DiffValues)},
        f \in BOOLEAN}
      \cup {[current |-> <<[k |-> "a", v |-> "1"], [k |-> "b", v |-> "3"],
                           [k |-> "c", v |-> "4"]>>,
             inHead |-> File(<<[k |-> "a", v |-> "1"], [k |-> "b", v |-> "2"]>>),
             forceTranslateAll |-> FALSE]}

\* The state of the runner while a function of util.ts is called alone.
NoRun ==
    /\ forceTranslateAll = FALSE
    /\ dirFolders = <<>>
    /\ dirFiles = <<>>
    /\ head = [path \in Paths |-> Absent]
    /\ disk = [path \in Paths |-> Absent]
    /\ disk0 = disk
    /\ pc = "idle"
    /\ isUsingSubFolders = FALSE
    /\ localesInfo = <<>>
    /\ gitInfo = <<>>
    /\ mainLocaleChanges = [changed |-> <<>>, deleted |-> <<>>]
    /\ keysForFileName = <<>>
    /\ missingKeys = <<>>
    /\ cursor = NoCursor
    /\ call = NoCall
    /\ ncalls = 0
    /\ written = {}
    /\ result = <<>>
    /\ faithful = TRUE
    /\ complete = TRUE
    /\ dest = dir
    /\ destFiles = [path \in Paths |-> Absent]
    /\ failed = FALSE

runner == <<forceTranslateAll, dirFolders, dirFiles, head, disk, disk0, pc,
            isUsingSubFolders, localesInfo, gitInfo, mainLocaleChanges,
            keysForFileName, missingKeys, cursor, call, ncalls, written,
            result, faithful, complete, dest, destFiles, failed>>

DiffInit ==
    /\ NoRun
    /\ arg \in DiffArgs
    /\ out = <<>>

\* One call of getGitDiffJSON on the file and its HEAD version.
Diff ==
    /\ Len(out) < MaxCalls
    /\ out' = Append(out, getGitDiffJSON(arg.current, arg.inHead,
                                         arg.forceTranslateAll))
    /\ UNCHANGED <<runner, arg>>

DiffNext == Diff

DiffSpec == DiffInit /\ [][DiffNext]_vars

\* The previous snapshot of the pair: empty when HEAD has no such file.
Snapshot(inHead) == IF inHead.exists THEN inHead.map ELSE <<>>

NoDuplicates(s) == \A i, j \in 1..Len(s) : i # j => s[i] # s[j]

Unchanged == arg.inHead.exists /\ Range(arg.inHead.map) = Range(arg.current)

NoChanges(changes) ==
    changes.added = <<>> /\ changes.replaced = <<>> /\ changes.deleted = <<>>

\* C7 as stated: on an unchanged pair of snapshots every call of
\* getGitDiffJSON, the first and the repeated ones, returns empty added,
\* replaced and deleted lists.
C7_UnchangedPairEmpty ==
    Unchanged => \A n \in 1..Len(out) : NoChanges(out[n])

\* C7, amended: without the force flag, on an unchanged pair of snapshots
\* every call of getGitDiffJSON, the first and the repeated ones, returns
\* empty added, replaced and deleted lists.
C7_UnchangedPairEmptyWithoutForce ==
    (Unchanged /\ ~arg.forceTranslateAll)
        => \A n \in 1..Len(out) : NoChanges(out[n])

\* An unchanged pair with two keys has been diffed twice without the force
\* flag.
C7_Witness ==
    /\ Unchanged
    /\ ~arg.forceTranslateAll
    /\ Len(arg.current) >= 2
    /\ Len(out) >= 2
    /\ NoChanges(out[1]) /\ NoChanges(out[2])

\* C8: with the force flag getGitDiffJSON returns every key of the current
\* mapping as replaced, each once and in the mapping's order, no deleted and
\* no added key, and the same whatever the HEAD version is.
C8_ForceReplacesAll ==
    arg.forceTranslateAll =>
        \A n \in 1..Len(out) :
            /\ out[n].replaced = KeysOf(arg.current)
            /\ NoDuplicates(out[n].replaced)
            /\ out[n].deleted = <<>>
            /\ out[n].added = <<>>
            /\ \A other \in {a \in DiffArgs :
                                /\ a.current = arg.current
                                /\ a.forceTranslateAll} :
                   getGitDiffJSON(other.current, other.inHead, TRUE) = out[n]

\* With the force flag a file has been diffed whose HEAD version holds a
\* key it has lost, a key whose value has changed and an unchanged key.
C8_Witness ==
    /\ arg.forceTranslateAll
    /\ Len(out) > 0
    /\ arg.inHead.exists
    /\ \E key \in Range(KeysOf(arg.inHead.map)) : ~HasKey(arg.current, key)
    /\ \E key \in Range(KeysOf(arg.current)) :
           HasKey(arg.inHead.map, key)
               /\ At(arg.inHead.map, key) # At(arg.current, key)
    /\ \E key \in Range(KeysOf(arg.current)) : ~HasKey(arg.inHead.map, key)
    /\ out[1].replaced = KeysOf(arg.current)

(***************************************************************************)
(* flattenJSON and unflattenJSON called alone on one JSON tree             *)
(***************************************************************************)

\* The most entries of the tree's top object or array, and of an object or
\* array inside it.
MaxEntries == 2
MaxInner == 1

\* The keys of the objects: a plain key, the empty key, a key with a dot and
\* a key with a dot and the characters of PERIOD_ESC; those of the objects
\* inside the tree: a plain key and a key with a dot.
CodecKeys == {<<"a">>, <<>>, <<"a", ".", "b">>, <<".", "~", "|", "~">>}
InnerKeys == {<<"a">>, <<"a", ".", "b">>}

Leaves == {Leaf("string", "x"), Leaf("number", "1")}

\* The objects with at most n entries, keys in keys and values in values,
\* and the arrays with at most n elements in values.
ObjectsOf(keys, values, n) ==
    UNION {{Object([i \in 1..Len(ks) |-> [k |-> ks[i], v |-> f[i]]]) :
               f \in [1..Len(ks) -> values]} :
              ks \in {x \in KeySeqs(keys) : Len(x) <= n}}
ArraysOf(values, n) ==
    UNION {{Array(f) : f \in [1..m -> values]} : m \in 0..n}

\* The trees whose top object or array has at most n entries, each a leaf
\* or an object or array of at most m strings.
Inner(m) ==
    Leaves \cup ObjectsOf(InnerKeys, {Leaf("string", "x")}, m)
           \cup ArraysOf({Leaf("string", "x")}, m)
Trees(n, m) == ObjectsOf(CodecKeys, Inner(m), n) \cup ArraysOf(Inner(m), n)

CodecInit ==
    /\ NoRun
    /\ arg \in Trees(MaxEntries, MaxInner)
    /\ out = <<>>

\* flattenJSON(tree)
CallFlatten ==
    /\ Len(out) = 0
    /\ out' = <<flattenJSON(arg, <<>>, <<>>)>>
    /\ UNCHANGED <<runner, arg>>

\* unflattenJSON of what flattenJSON returned
CallUnflatten ==
    /\ Len(out) = 1
    /\ out' = Append(out, unflattenJSON(out[1]))
    /\ UNCHANGED <<runner, arg>>

CodecNext == CallFlatten \/ CallUnflatten

CodecSpec == CodecInit /\ [][CodecNext]_vars

\* The tree with every array as the object of its indices and every leaf
\* as the string of its value.
RECURSIVE Stringified(_)
Stringified(t) ==
    IF IsObject(t)
    THEN Object([i \in 1..Len(t.kids) |->
                    [k |-> OwnEntries(t)[i].k,
                     v |-> Stringified(OwnEntries(t)[i].v)]])
    ELSE Leaf("string", t.text)

\* Structural equality: the same leaf, or objects with the same keys and
\* structurally equal values, in whatever order.
RECURSIVE SameTree(_, _)
SameTree(t, u) ==
    /\ t.type = u.type
    /\ t.text = u.text
    /\ Range(KeysOf(OwnEntries(t))) = Range(KeysOf(OwnEntries(u)))
    /\ \A key \in Range(KeysOf(OwnEntries(t))) :
           SameTree(At(OwnEntries(t), key), At(OwnEntries(u), key))

\* The tree has an array with an object whose keys contain dots.
RECURSIVE HasDottedObjectInArray(_)
HasDottedObjectInArray(t) ==
    \/ /\ t.type = "array"
       /\ \E i \in 1..Len(t.kids) :
              /\ t.kids[i].type = "object"
              /\ \E j \in 1..Len(t.kids[i].kids) :
                     "." \in Range(t.kids[i].kids[j].k)
    \/ /\ IsObject(t)
       /\ \E i \in 1..Len(t.kids) : HasDottedObjectInArray(OwnEntries(t)[i].v)

\* C10: for a tree without an array that holds an object with dots in its
\* keys, unflattenJSON(flattenJSON(t)) is structurally equal to t with
\* every array as the object of its indices and every leaf as a string (a
\* leaf that kept its type counts as equal to its string).
C10_RoundTrip ==
    (Len(out) = 2 /\ ~HasDottedObjectInArray(arg)) =>
        /\ out[2] # TypeError
        /\ SameTree(Stringified(out[2]), Stringified(arg))

\* The positions of a tree: the path of keys from the top to each of its
\* entries, an array's indices being its keys.
RECURSIVE Positions(_)
Positions(t) ==
    IF ~IsObject(t) THEN {}
    ELSE UNION {{<<e.k>>} \cup {<<e.k>> \o p : p \in Positions(e.v)} :
                   e \in Range(OwnEntries(t))}

\* The tree has an empty key or an empty object or array somewhere (what
\* C10 is about).
RECURSIVE HasEmptyKeyOrContainer(_)
HasEmptyKeyOrContainer(t) ==
    /\ IsObject(t)
    /\ \/ OwnEntries(t) = <<>>
       \/ \E e \in Range(OwnEntries(t)) :
              e.k = <<>> \/ HasEmptyKeyOrContainer(e.v)

\* The paths that end in a key with a dot.
Dotted(t) == {p \in Positions(t) : "." \in Range(p[Len(p)])}

\* C11: after flattenJSON and then unflattenJSON, every key with a dot is
\* at its position with its text: every path of the tree that ends in a key
\* with a dot is a path of the result. Stated for the trees without an empty
\* key and without an empty object or array, which C10 covers.
C11_DottedKeysKept ==
    (Len(out) = 2 /\ ~HasEmptyKeyOrContainer(arg)) =>
        /\ out[2] # TypeError
        /\ Dotted(arg) \subseteq Positions(out[2])

\* A key of dots alone is kept, at the top and inside an object.
C11_PlainDottedKept ==
    /\ Len(out) = 2
    /\ <<<<"a">>, <<"a", ".", "b">>>> \in Dotted(arg)
    /\ Dotted(arg) \subseteq Positions(out[2])

\* The leaves of a tree, each with the path of keys from the top to it, an
\* array's indices being its keys.
RECURSIVE LeavesOf(_)
LeavesOf(t) ==
    UNION {IF IsObject(e.v)
           THEN {[path |-> <<e.k>> \o l.path, leaf |-> l.leaf] : l \in LeavesOf(e.v)}
           ELSE {[path |-> <<e.k>>, leaf |-> e.v]} :
              e \in Range(OwnEntries(t))}

\* The path joined by dots, a dot inside a key being written as PERIOD_ESC.
RECURSIVE DotJoined(_)
DotJoined(path) ==
    LET segment == Join(Split(Head(path), <<".">>), PERIOD_ESC)
    IN  IF Len(path) = 1 THEN segment
        ELSE segment \o <<".">> \o DotJoined(Tail(path))

\* The tree has the empty key at its top.
HasEmptyTopKey(t) == \E e \in Range(OwnEntries(t)) : e.k = <<>>

\* C21: flattenJSON returns one entry for every leaf of the tree and no
\* other: as many entries as leaves, each keyed by the dot-joined path to
\* its leaf (an array index being a segment) and holding the leaf.
C21_OneEntryPerLeaf ==
    Len(out) >= 1 =>
        /\ Len(out[1]) = Cardinality(LeavesOf(arg))
        /\ {<<out[1][i].k, out[1][i].v>> : i \in 1..Len(out[1])}
               = {<<DotJoined(l.path), l.leaf>> : l \in LeavesOf(arg)}

\* The same for the trees without the empty key at the top.
C21_OneEntryPerLeafWithoutEmptyKey ==
    (Len(out) >= 1 /\ ~HasEmptyTopKey(arg)) =>
        /\ Len(out[1]) = Cardinality(LeavesOf(arg))
        /\ {<<out[1][i].k, out[1][i].v>> : i \in 1..Len(out[1])}
               = {<<DotJoined(l.path), l.leaf>> : l \in LeavesOf(arg)}

(***************************************************************************)
(* chunkArray called alone on a key list, with the runner's bucket size    *)
(***************************************************************************)

\* The key lists: the keys "1" to n, for every n up to the longest list of
\* a run and one batch more.
KeyLists == {KeysOf(LongFile(n, "v1")) : n \in 0..(MaxKeys + BUCKET_SIZE)}

ChunkInit ==
    /\ NoRun
    /\ arg \in KeyLists
    /\ out = <<>>

\* chunkArray(keys, BUCKET_SIZE) of updateAllLocaleFiles.
CallChunk ==
    /\ out = <<>>
    /\ out' = <<chunkArray(arg, BUCKET_SIZE)>>
    /\ UNCHANGED <<runner, arg>>

ChunkNext == CallChunk

ChunkSpec == ChunkInit /\ [][ChunkNext]_vars

\* C26: the batches of a key list have 25 keys at most and one at least,
\* every batch but the last has 25, and the batches put one after the other
\* in their order are the key list: every key of the list is in one batch,
\* once.
C26_Batches ==
    \A n \in 1..Len(out) :
        LET chunks == out[n]
        IN  /\ \A i \in 1..Len(chunks) :
                   /\ Len(chunks[i]) >= 1
                   /\ Len(chunks[i]) <= 25
                   /\ i < Len(chunks) => Len(chunks[i]) = 25
            /\ Flatten(chunks) = arg
            /\ \A j \in 1..Len(arg) :
                   Cardinality({<<i, k>> \in
                                   UNION {{<<i, k>> : k \in 1..Len(chunks[i])} :
                                             i \in 1..Len(chunks)} :
                                   chunks[i][k] = arg[j]}) = 1

\* A list of two full batches and one key more has been cut in three; the
\* empty list has been cut in no batch; a list of two full batches in two.
C26_Witness ==
    /\ Len(arg) = 2 * BUCKET_SIZE + 1
    /\ Len(out) = 1
    /\ Len(out[1]) = 3
    /\ Len(out[1][3]) = 1
C26_EmptyList == arg = <<>> /\ out = << <<>> >>
C26_FullBatches ==
    /\ Len(arg) = 2 * BUCKET_SIZE
    /\ Len(out) = 1
    /\ Len(out[1]) = 2

(***************************************************************************)
(* getMissingKeys called alone on the loaded content of the locales        *)
(***************************************************************************)

\* The flat mappings of a locale: every key has a translation, an empty
\* string or is not there.
Loadable == MapsOver({"old", ""})

\* localesInfo as getFileContentForCodes builds it, in either layout: the
\* locales of a listing, each with one file.
LoadedInfo(sub, codes, main, others) ==
    [i \in 1..Len(codes) |->
        [locale |-> codes[i],
         file |-> <<[k |-> IF sub THEN ResourceFiles[1]
                           ELSE <<codes[i], "json">>,
                     v |-> IF codes[i] = mainLocale THEN main
                           ELSE others[codes[i]]]>>]]

MissingInit ==
    /\ NoRun
    /\ \E sub \in BOOLEAN, codes \in {<<"de", "en", "fr">>, <<"en", "fr">>},
          main \in MapsOver({"v1"}) :
         \E others \in [Range(codes) \ {mainLocale} -> Loadable] :
            arg = [sub |-> sub,
                   localesInfo |-> LoadedInfo(sub, codes, main, others)]
    /\ out = <<>>

\* getMissingKeys(localesInfo, mainLocale) of run().
CallMissing ==
    /\ out = <<>>
    /\ out' = <<getMissingKeys(arg.localesInfo, arg.sub)>>
    /\ UNCHANGED <<runner, arg>>

MissingNext == CallMissing

MissingSpec == MissingInit /\ [][MissingNext]_vars

\* The keys that getMissingKeys has listed for a locale, under any file.
ListedFor(missing, code) ==
    UNION {UNION {Range(missing[i].files[j].v) :
                     j \in 1..Len(missing[i].files)} :
              i \in {x \in 1..Len(missing) : missing[x].locale = code}}

\* C27: getMissingKeys lists a key of the main locale's file for another
\* locale exactly when the locale's mapping of its file has no entry for the
\* key or has the empty string for it, and it lists nothing else.
C27_MissingIsFalsy ==
    \A n \in 1..Len(out) :
        \A i \in 1..Len(arg.localesInfo) :
            LET info == arg.localesInfo[i]
                main == LocaleInfoOf(arg.localesInfo, mainLocale).file[1].v
                mapping == info.file[1].v
            IN  info.locale # mainLocale =>
                    ListedFor(out[n], info.locale) =
                        {main[j].k : j \in {x \in 1..Len(main) :
                            \/ \A y \in 1..Len(mapping) :
                                   mapping[y].k # main[x].k
                            \/ \E y \in 1..Len(mapping) :
                                   /\ mapping[y].k = main[x].k
                                   /\ mapping[y].v = ""}}

\* A key that a locale has with the empty string is listed for it, next to
\* a key that the locale has translated and that is not listed.
C27_Witness ==
    /\ Len(out) = 1
    /\ \E i \in 1..Len(arg.localesInfo) :
           LET info == arg.localesInfo[i]
           IN  /\ info.locale # mainLocale
               /\ Get(info.file[1].v, "a") = ""
               /\ Get(info.file[1].v, "b") = "old"
               /\ ListedFor(out[1], info.locale) = {"a"}

(***************************************************************************)
(* The merge of a parsed reply, alone                                      *)
(***************************************************************************)

\* The calls of updateLocaleFile: its working set is every locale (first
\* pass) or fr alone (second pass), its keys are a or a and b.
MergeInit ==
    /\ NoRun
    /\ \E sub \in BOOLEAN, codes \in {<<"de", "en", "fr">>, <<"en", "fr">>},
          keys \in {<<"a">>, <<"a", "b">>} :
         \E others \in [Range(codes) \ {mainLocale} -> Translated],
            work \in {codes, <<"fr">>} :
            LET main == <<[k |-> "a", v |-> "v1"], [k |-> "b", v |-> "v1"]>>
                info == LoadedInfo(sub, codes, main, others)
                to == CallOf(sub, info, work,
                             IF sub THEN ResourceFiles[1]
                             ELSE <<mainLocale, "json">>, keys)
            IN  \E reply \in Replies(to.locales, to.payload) :
                    arg = [sub |-> sub, localesInfo |-> info, work |-> work,
                           fileName |-> to.fileName, result |-> reply]
    /\ out = <<>>

\* translatedLocales.forEach(...) of updateLocaleFile.
CallMerge ==
    /\ out = <<>>
    /\ out' = <<MergeReply(arg.localesInfo, arg.work, arg.result,
                           arg.fileName, arg.sub)>>
    /\ UNCHANGED <<runner, arg>>

MergeNext == CallMerge

MergeSpec == MergeInit /\ [][MergeNext]_vars

\* C28: after the merge of a reply, a locale of the working set that the
\* reply names has every key of its part of the reply with the reply's
\* value, whatever it had before, and its other entries as before; every
\* other locale has its mapping as before.
C28_ReplyMerged ==
    \A n \in 1..Len(out) :
        \A i \in 1..Len(arg.localesInfo) :
            LET code == arg.localesInfo[i].locale
                before == arg.localesInfo[i].file[1].v
                after == LocaleInfoOf(out[n], code).file[1].v
            IN  /\ Len(out[n]) = Len(arg.localesInfo)
                /\ IF code \in Range(arg.work) /\ HasKey(arg.result, code)
                   THEN LET part == At(arg.result, code)
                        IN  /\ \A j \in 1..Len(part) :
                                   Get(after, part[j].k) = part[j].v
                            /\ Range(KeysOf(after)) =
                                   Range(KeysOf(before)) \cup Range(KeysOf(part))
                            /\ \A key \in Range(KeysOf(before))
                                           \ Range(KeysOf(part)) :
                                   Get(after, key) = Get(before, key)
                   ELSE after = before

\* A reply that names every locale has been merged for the working set of
\* fr alone: fr's value of a key is overwritten, de is as before.
C28_Witness ==
    /\ Len(out) = 1
    /\ arg.work = <<"fr">>
    /\ HasKey(arg.result, "de")
    /\ HasLocale(arg.localesInfo, "de")
    /\ Get(LocaleInfoOf(arg.localesInfo, "fr").file[1].v, "a") = "old"
    /\ Get(LocaleInfoOf(out[1], "fr").file[1].v, "a") = "new"
    /\ LocaleInfoOf(out[1], "de") = LocaleInfoOf(arg.localesInfo, "de")

(***************************************************************************)
(* translateJSON and the merge of what it returns, alone                   *)
(***************************************************************************)

\* What translationFn gives translateJSON: it throws, or it resolves to a
\* text that is empty, that is the JSON text of an object or that is no
\* JSON text.
Thrown == [thrown |-> TRUE, text |-> "", json |-> <<>>]
EmptyText == [thrown |-> FALSE, text |-> "", json |-> <<>>]
NoJson == [thrown |-> FALSE, text |-> "Sorry, I cannot", json |-> <<>>]
JsonText(object) == [thrown |-> FALSE, text |-> "{...}", json |-> object]

\* translateJSON handing every text to JSON.parse, which throws on the
\* empty text.
translateJSON_parseAlways(messageContent) ==
    IF messageContent.thrown \/ messageContent.text # "{...}"
    THEN [exit |-> TRUE, translatedJSON |-> <<>>]
    ELSE [exit |-> FALSE, translatedJSON |-> messageContent.json]

\* translateJSON from the reply of translationFn on: `messageContent ?
\* JSON.parse(messageContent) : {}` inside try, console.error and
\* process.exit(1) in catch.
translateJSON(messageContent) ==
    IF messageContent.thrown THEN [exit |-> TRUE, translatedJSON |-> <<>>]
    ELSE IF messageContent.text = ""
    THEN [exit |-> FALSE, translatedJSON |-> <<>>]
    ELSE IF messageContent.text # "{...}"
    THEN [exit |-> TRUE, translatedJSON |-> <<>>]
    ELSE [exit |-> FALSE, translatedJSON |-> messageContent.json]

\* The calls of updateLocaleFile as in MergeInit, each with what
\* translationFn may give.
TranslateInit ==
    /\ NoRun
    /\ \E sub \in BOOLEAN, codes \in {<<"de", "en", "fr">>, <<"en", "fr">>},
          keys \in {<<"a">>, <<"a", "b">>} :
         \E others \in [Range(codes) \ {mainLocale} -> Translated],
            work \in {codes, <<"fr">>} :
            LET main == <<[k |-> "a", v |-> "v1"], [k |-> "b", v |-> "v1"]>>
                info == LoadedInfo(sub, codes, main, others)
                to == CallOf(sub, info, work,
                             IF sub THEN ResourceFiles[1]
                             ELSE <<mainLocale, "json">>, keys)
            IN  \E messageContent \in
                      {Thrown, EmptyText, NoJson} \cup
                      {JsonText(object) :
                          object \in Asked(to.locales, to.payload)} :
                    arg = [sub |-> sub, localesInfo |-> info, work |-> work,
                           fileName |-> to.fileName,
                           messageContent |-> messageContent]
    /\ out = <<>>

\* `const result = await translateJSON(...)` of updateLocaleFile and the
\* merge of the result: the process has exited, or the batch goes on with
\* the merged localesInfo.
CallTranslate ==
    /\ out = <<>>
    /\ \E got \in {translateJSON(arg.messageContent)} :
         out' = <<IF got.exit
                  THEN [exited |-> TRUE, localesInfo |-> arg.localesInfo]
                  ELSE [exited |-> FALSE,
                        localesInfo |->
                            MergeReply(arg.localesInfo, arg.work,
                                       got.translatedJSON, arg.fileName,
                                       arg.sub)]>>
    /\ UNCHANGED <<runner, arg>>

TranslateNext == CallTranslate

TranslateSpec == TranslateInit /\ [][TranslateNext]_vars

\* C30: when translationFn has resolved to the empty text, the process has
\* not exited and every locale's in-memory mapping is as it was before the
\* call.
C30_EmptyReplyGoesOn ==
    \A n \in 1..Len(out) :
        (~arg.messageContent.thrown /\ arg.messageContent.text = "") =>
            /\ ~out[n].exited
            /\ out[n].localesInfo = arg.localesInfo

\* The empty text has been handled for a call that was to translate a key
\* that fr does not have.
C30_Witness ==
    /\ Len(out) = 1
    /\ arg.messageContent = EmptyText
    /\ ~HasKey(LocaleInfoOf(arg.localesInfo, "fr").file[1].v, "a")
    /\ ~out[1].exited

=============================================================================
